---- MODULE Spec2Model ----
(***************************************************************************)
(* Tool gateway core of nssa_aiagent: ToolCatalog (bindings, reverse index, *)
(* reload), ServerRegistry (health state machine, tool index, heartbeat     *)
(* checker task), the routing strategies and their factory, AuditLogger     *)
(* (log_call, query_logs), ToolGateway.call_tool /                          *)
(* call_tool_by_physical_name and get_mcp_manager, modelled from            *)
(* src/tool_gateway/*.py and src/graph_service/mcp_integration.py.          *)
(***************************************************************************)
EXTENDS Integers, Sequences, FiniteSets, TLC

(* ------------------------------------------------------------------ *)
(* Bounds of the model                                                 *)
(* ------------------------------------------------------------------ *)
\* number of call_tool invocations that are issued
MaxCalls == 2
\* cap on consecutive_failures / consecutive_successes
MaxStreak == 3
\* cap on total_requests
MaxRequests == 1
\* number of clock ticks
MaxTicks == 2

(* ------------------------------------------------------------------ *)
(* Program constants                                                    *)
(* ------------------------------------------------------------------ *)
\* the defaults of config.get("health_check", {}).get(...)
default_unhealthy_threshold == 3
default_healthy_threshold == 2
timeout_seconds == 90
offline_threshold == 180
\* seconds that pass in one tick of the model's clock
TickSeconds == 91

(* ------------------------------------------------------------------ *)
(* Values                                                               *)
(* ------------------------------------------------------------------ *)
None == "None"
\* None where the value is otherwise a number: a time, a duration, a payload
NoTime == -1
NoResult == -1

HEALTHY == "healthy"
UNHEALTHY == "unhealthy"
OFFLINE == "offline"
UNKNOWN == "unknown"

PENDING == "pending"
RUNNING == "running"
SUCCESS == "success"
FAILED == "failed"
TIMEOUT == "timeout"
PERMISSION_DENIED == "permission_denied"

\* server names, in lexicographic order (sorted() of the names)
NameOrder == <<"s1", "s2">>
Names == {NameOrder[i] : i \in 1..Len(NameOrder)}

Range(s) == {s[i] : i \in 1..Len(s)}

(* ------------------------------------------------------------------ *)
(* State                                                                *)
(* ------------------------------------------------------------------ *)
VARIABLES
  servers,          \* ServerRegistry.servers: name -> ServerInstance
  tool_to_servers,  \* ServerRegistry.tool_to_servers: tool -> list of names
  config,           \* ServerRegistry.config: its health_check section
  now,              \* datetime.now(), in seconds
  calls,            \* the call_tool invocations, by request id
  audit_log,        \* the audit trail: the records written by _write_log
  counters,         \* RoundRobinStrategy._counters
  mcp_manager,      \* ToolGateway._mcp_manager
  catalog_tools,    \* ToolCatalog.tools: logical name -> ToolDefinition
  physical_to_logical, \* ToolCatalog.physical_to_logical: physical tool -> logical name
  query,            \* the last query_logs call: its arguments and the records it returned
  heartbeat_task,   \* ServerRegistry._heartbeat_task: the checker task, or none
  tasks,            \* the checker tasks created so far, each sleeping, cancelled or done
  stops,            \* the stop_heartbeat_checker calls that have met a task, by order of arrival
  runF,             \* history: mark_unhealthy calls in a row on a server that was HEALTHY with no failures
  runS,             \* history: mark_healthy calls in a row on a server that was UNHEALTHY
  ring,             \* ConsistentHashStrategy._ring: the sorted hashes
  nodes,            \* ConsistentHashStrategy._nodes: hash -> server name
  built_for,        \* ConsistentHashStrategy._built_for
  selections,       \* history: the select calls made on the strategies, in order
  strategies,       \* RoutingStrategyFactory._strategies: cache key -> strategy instance
  mcp_global,       \* graph_service.mcp_integration._mcp_manager: the global manager and its start
  gets,             \* history: the _get_routing_strategy calls and the selections made on what they returned
  resolved          \* the last get_binding call: its arguments and what it returned

vars == <<servers, tool_to_servers, config, now, calls, audit_log, counters, mcp_manager,
          catalog_tools, physical_to_logical, query, heartbeat_task, tasks, stops, runF, runS, ring, nodes, built_for, selections,
          strategies, gets, mcp_global, resolved>>

registry_vars == <<servers, tool_to_servers, runF, runS>>
gateway_vars == <<calls, audit_log, counters, mcp_manager>>
checker_vars == <<heartbeat_task, tasks, stops>>
clock_vars == <<now, catalog_tools, physical_to_logical, config, resolved, query, checker_vars>>
factory_vars == <<strategies, gets>>
manager_vars == <<mcp_global>>
router_vars == <<ring, nodes, built_for, selections, factory_vars, manager_vars>>

(* ------------------------------------------------------------------ *)
(* ServerRegistry                                                       *)
(* ------------------------------------------------------------------ *)
\* a statically configured server, as _load_static_servers builds it
StaticServer(cfg, t) ==
  [description |-> cfg.description, environment |-> cfg.environment, weight |-> cfg.weight,
   status |-> UNKNOWN, last_heartbeat |-> NoTime, registered_at |-> t,
   consecutive_failures |-> 0, consecutive_successes |-> 0,
   total_requests |-> 0, failed_requests |-> 0, tools |-> <<>>]

\* list.remove(x): drops the first occurrence
RECURSIVE RemoveFirst(_, _)
RemoveFirst(s, x) ==
  IF s = <<>> THEN <<>>
  ELSE IF Head(s) = x THEN Tail(s)
  ELSE <<Head(s)>> \o RemoveFirst(Tail(s), x)

\* first loop of _update_tool_mapping: remove the old entries of server_name
RemoveMappings(idx, server_name) ==
  LET keep == {t \in DOMAIN idx :
                 ~(server_name \in Range(idx[t]) /\ RemoveFirst(idx[t], server_name) = <<>>)}
  IN [t \in keep |-> IF server_name \in Range(idx[t])
                     THEN RemoveFirst(idx[t], server_name) ELSE idx[t]]

\* second loop of _update_tool_mapping: add the new entries, in the order of tools
RECURSIVE AddMappings(_, _, _)
AddMappings(idx, server_name, tools) ==
  IF tools = <<>> THEN idx
  ELSE LET t == Head(tools)
           cur == IF t \in DOMAIN idx THEN idx[t] ELSE <<>>
           new == IF server_name \in Range(cur) THEN cur ELSE Append(cur, server_name)
           idx2 == [x \in (DOMAIN idx) \cup {t} |-> IF x = t THEN new ELSE idx[x]]
       IN AddMappings(idx2, server_name, Tail(tools))

update_tool_mapping(idx, server_name, tools) ==
  AddMappings(RemoveMappings(idx, server_name), server_name, tools)

\* dict.get(key, default)
Get(d, key, default) == IF key \in DOMAIN d THEN d[key] ELSE default

\* the thresholds the registry is configured with
UnhealthyThreshold(cfg) == Get(cfg, "unhealthy_threshold", default_unhealthy_threshold)
HealthyThreshold(cfg) == Get(cfg, "healthy_threshold", default_healthy_threshold)

\* The methods of ServerRegistry act on self: R is the registry before the call,
\* [servers, tool_to_servers, config], and the value is the registry after it.
\* register that stamps registered_at anew when the name is already registered
register_RestampingRegisteredAt(R, name, a, t) ==
  [R EXCEPT !.servers = [n \in (DOMAIN R.servers) \cup {name} |->
                           IF n = name
                           THEN [description |-> a.description,
                                 environment |-> a.environment,
                                 weight |-> a.weight, status |-> HEALTHY,
                                 last_heartbeat |-> t, registered_at |-> t,
                                 consecutive_failures |-> 0,
                                 consecutive_successes |-> 0, total_requests |-> 0,
                                 failed_requests |-> 0, tools |-> a.tools]
                           ELSE R.servers[n]],
            !.tool_to_servers = update_tool_mapping(R.tool_to_servers, name, a.tools)]

\* register that starts the statistics of a registered name anew
register_ResettingStatistics(R, name, a, t) ==
  LET S == R.servers
      S2 == [n \in (DOMAIN S) \cup {name} |->
               IF n = name
               THEN [description |-> a.description, environment |-> a.environment,
                     weight |-> a.weight, status |-> HEALTHY, last_heartbeat |-> t,
                     registered_at |-> IF n \in DOMAIN S THEN S[n].registered_at ELSE t,
                     consecutive_failures |->
                       IF n \in DOMAIN S THEN S[n].consecutive_failures ELSE 0,
                     consecutive_successes |->
                       IF n \in DOMAIN S THEN S[n].consecutive_successes ELSE 0,
                     total_requests |-> 0, failed_requests |-> 0,
                     tools |-> IF n \in DOMAIN S /\ a.tools = <<>> THEN S[n].tools
                               ELSE a.tools]
               ELSE S[n]]
  IN [R EXCEPT !.servers = S2,
                !.tool_to_servers = update_tool_mapping(R.tool_to_servers, name, a.tools)]

register(R, name, a, t) ==
  LET S == R.servers
      S2 == IF name \in DOMAIN S
            THEN [S EXCEPT ![name] =
                    [@ EXCEPT !.description = a.description, !.environment = a.environment,
                              !.weight = a.weight, !.status = HEALTHY, !.last_heartbeat = t,
                              !.tools = IF a.tools # <<>> THEN a.tools ELSE @]]
            ELSE [n \in (DOMAIN S) \cup {name} |->
                    IF n = name
                    THEN [description |-> a.description, environment |-> a.environment,
                          weight |-> a.weight, status |-> HEALTHY, last_heartbeat |-> t,
                          registered_at |-> t, consecutive_failures |-> 0,
                          consecutive_successes |-> 0, total_requests |-> 0,
                          failed_requests |-> 0, tools |-> a.tools]
                    ELSE S[n]]
  IN [R EXCEPT !.servers = S2,
                !.tool_to_servers = update_tool_mapping(R.tool_to_servers, name, a.tools)]

\* heartbeat that stamps the time and counts but leaves the status as it was
heartbeat_KeepingStatus(R, name, t) ==
  IF name \notin DOMAIN R.servers THEN R
  ELSE [R EXCEPT !.servers[name] =
          [@ EXCEPT !.last_heartbeat = t, !.consecutive_failures = 0,
                    !.consecutive_successes = @ + 1]]

\* heartbeat that counts a success and leaves consecutive_failures as it was
heartbeat_KeepingFailures(R, name, t) ==
  IF name \notin DOMAIN R.servers THEN R
  ELSE [R EXCEPT !.servers[name] =
          [@ EXCEPT !.last_heartbeat = t, !.status = HEALTHY,
                    !.consecutive_successes = @ + 1]]

heartbeat(R, name, t) ==
  IF name \notin DOMAIN R.servers THEN R
  ELSE [R EXCEPT !.servers[name] =
          [@ EXCEPT !.last_heartbeat = t, !.status = HEALTHY,
                    !.consecutive_failures = 0,
                    !.consecutive_successes = @ + 1]]

\* the value heartbeat returns
heartbeat_returns(R, name) == name \in DOMAIN R.servers

\* deregister that pops the instance and leaves the index as it was
deregister_KeepingIndex(R, name) ==
  IF name \notin DOMAIN R.servers THEN R
  ELSE [R EXCEPT !.servers = [n \in (DOMAIN R.servers) \ {name} |-> R.servers[n]]]

deregister(R, name) ==
  IF name \notin DOMAIN R.servers THEN R
  ELSE [R EXCEPT !.servers = [n \in (DOMAIN R.servers) \ {name} |-> R.servers[n]],
                  !.tool_to_servers = update_tool_mapping(R.tool_to_servers, name, <<>>)]

\* the value deregister returns
deregister_returns(R, name) == name \in DOMAIN R.servers

\* mark_unhealthy that compares with > instead of >=
mark_unhealthy_StrictlyAbove(R, name) ==
  IF name \notin DOMAIN R.servers THEN R
  ELSE LET f == R.servers[name].consecutive_failures + 1
       IN [R EXCEPT !.servers[name] =
             [@ EXCEPT !.consecutive_failures = f, !.consecutive_successes = 0,
                       !.status = IF f > UnhealthyThreshold(R.config)
                                  THEN UNHEALTHY ELSE @]]

mark_unhealthy(R, name) ==
  IF name \notin DOMAIN R.servers THEN R
  ELSE LET f == R.servers[name].consecutive_failures + 1
           unhealthy_threshold == UnhealthyThreshold(R.config)
       IN [R EXCEPT !.servers[name] =
             [@ EXCEPT !.consecutive_failures = f, !.consecutive_successes = 0,
                       !.status = IF f >= unhealthy_threshold THEN UNHEALTHY ELSE @]]

\* mark_healthy that restores HEALTHY on the first success
mark_healthy_AtOnce(R, name) ==
  IF name \notin DOMAIN R.servers THEN R
  ELSE [R EXCEPT !.servers[name] =
          [@ EXCEPT !.consecutive_successes = @ + 1, !.consecutive_failures = 0,
                    !.status = HEALTHY]]

mark_healthy(R, name) ==
  IF name \notin DOMAIN R.servers THEN R
  ELSE LET s == R.servers[name].consecutive_successes + 1
           healthy_threshold == HealthyThreshold(R.config)
       IN [R EXCEPT !.servers[name] =
             [@ EXCEPT !.consecutive_successes = s, !.consecutive_failures = 0,
                       !.status = IF s >= healthy_threshold /\ @ # HEALTHY
                                  THEN HEALTHY ELSE @]]

\* record_request that writes back a total read before another request was counted
record_request_LostUpdate(R, name, success) ==
  IF name \notin DOMAIN R.servers THEN R
  ELSE [R EXCEPT !.servers[name] =
          [@ EXCEPT !.total_requests = 1,
                    !.failed_requests = IF success THEN @ ELSE @ + 1]]

\* record_request that counts every request as failed
record_request_AlwaysFailed(R, name, success) ==
  IF name \notin DOMAIN R.servers THEN R
  ELSE [R EXCEPT !.servers[name] =
          [@ EXCEPT !.total_requests = @ + 1, !.failed_requests = @ + 1]]

\* record_request that counts the request on a new instance when the name is
\* not registered
record_request_Recreating(R, name, success) ==
  LET S == R.servers
      fresh == [description |-> "", environment |-> "default", weight |-> 100,
                status |-> UNKNOWN, last_heartbeat |-> NoTime, registered_at |-> 0,
                consecutive_failures |-> 0, consecutive_successes |-> 0,
                total_requests |-> 0, failed_requests |-> 0, tools |-> <<>>]
      S2 == [n \in (DOMAIN S) \cup {name} |-> IF n \in DOMAIN S THEN S[n] ELSE fresh]
  IN [R EXCEPT !.servers =
        [S2 EXCEPT ![name] =
           [@ EXCEPT !.total_requests = @ + 1,
                     !.failed_requests = IF success THEN @ ELSE @ + 1]]]

record_request(R, name, success) ==
  IF name \notin DOMAIN R.servers THEN R
  ELSE [R EXCEPT !.servers[name] =
          [@ EXCEPT !.total_requests = @ + 1,
                    !.failed_requests = IF success THEN @ ELSE @ + 1]]

\* a pass that takes only UNHEALTHY instances OFFLINE
check_server_OfflineFromUnhealthy(server, t) ==
  IF server.last_heartbeat = NoTime THEN server
  ELSE LET elapsed == t - server.last_heartbeat
       IN IF elapsed > offline_threshold /\ server.status = UNHEALTHY
          THEN [server EXCEPT !.status = OFFLINE]
          ELSE IF elapsed > timeout_seconds /\ server.status = HEALTHY
          THEN [server EXCEPT !.status = UNHEALTHY]
          ELSE server

\* one pass of the for loop of _heartbeat_check_loop over one instance
check_server(server, t) ==
  IF server.last_heartbeat = NoTime THEN server
  ELSE LET elapsed == t - server.last_heartbeat
       IN IF elapsed > offline_threshold
          THEN [server EXCEPT !.status = OFFLINE]
          ELSE IF elapsed > timeout_seconds /\ server.status = HEALTHY
          THEN [server EXCEPT !.status = UNHEALTHY]
          ELSE server

\* a scan that purges the servers it finds OFFLINE from the index
heartbeat_check_Purging(R, t) ==
  LET S == [n \in DOMAIN R.servers |-> check_server(R.servers[n], t)]
  IN [R EXCEPT !.servers = S,
               !.tool_to_servers =
                 [tool \in DOMAIN R.tool_to_servers |->
                    SelectSeq(R.tool_to_servers[tool],
                              LAMBDA n : n \in DOMAIN S => S[n].status # OFFLINE)]]

\* one scan of _heartbeat_check_loop
heartbeat_check(R, t) ==
  [R EXCEPT !.servers = [n \in DOMAIN R.servers |-> check_server(R.servers[n], t)]]

\* get_servers_for_tool: the names of the instances it returns, in list order
RECURSIVE HealthyOf(_, _)
HealthyOf(S, server_names) ==
  IF server_names = <<>> THEN <<>>
  ELSE LET name == Head(server_names)
           rest == HealthyOf(S, Tail(server_names))
       IN IF name \in DOMAIN S /\ S[name].status = HEALTHY
          THEN <<name>> \o rest ELSE rest

\* get_servers_for_tool that only drops the servers that are OFFLINE
get_servers_for_tool_NotOffline(R, tool_name) ==
  SelectSeq(IF tool_name \in DOMAIN R.tool_to_servers
            THEN R.tool_to_servers[tool_name] ELSE <<>>,
            LAMBDA n : n \in DOMAIN R.servers /\ R.servers[n].status # OFFLINE)

\* get_servers_for_tool without the health filter
get_servers_for_tool_AnyStatus(R, tool_name) ==
  IF tool_name \in DOMAIN R.tool_to_servers
  THEN SelectSeq(R.tool_to_servers[tool_name], LAMBDA n : n \in DOMAIN R.servers)
  ELSE <<>>

get_servers_for_tool(R, tool_name) ==
  HealthyOf(R.servers,
            IF tool_name \in DOMAIN R.tool_to_servers
            THEN R.tool_to_servers[tool_name] ELSE <<>>)

(* ------------------------------------------------------------------ *)
(* ToolCatalog                                                          *)
(* ------------------------------------------------------------------ *)
Binding(server, tool, env, prio, en) ==
  [mcp_server |-> server, physical_tool |-> tool, environment |-> env,
   priority |-> prio, enabled |-> en]

\* the catalog document the model is run with: logical name -> bindings, permissions
CatalogDoc ==
  [ping   |-> [bindings |-> <<Binding("net", "x", "default", 1, TRUE),
                              Binding("net2", "y", "prod", 2, TRUE)>>,
               allowed_agents |-> {}],
   secret |-> [bindings |-> <<Binding("net", "x", "default", 1, TRUE)>>,
               allowed_agents |-> {"admin"}],
   off    |-> [bindings |-> <<Binding("net", "x", "default", 1, FALSE)>>,
               allowed_agents |-> {"admin"}]]

\* an insertion that puts a binding before the earlier ones of its priority
RECURSIVE InsertByPriority_BeforeEquals(_, _)
InsertByPriority_BeforeEquals(sorted, b) ==
  IF sorted = <<>> THEN <<b>>
  ELSE IF Head(sorted).priority > b.priority
       THEN <<Head(sorted)>> \o InsertByPriority_BeforeEquals(Tail(sorted), b)
       ELSE <<b>> \o sorted

\* list.sort(key=priority, reverse=True): stable, highest priority first
RECURSIVE InsertByPriority(_, _)
InsertByPriority(sorted, b) ==
  IF sorted = <<>> THEN <<b>>
  ELSE IF Head(sorted).priority >= b.priority
       THEN <<Head(sorted)>> \o InsertByPriority(Tail(sorted), b)
       ELSE <<b>> \o sorted

RECURSIVE SortByPriority(_)
SortByPriority(bs) ==
  IF bs = <<>> THEN <<>>
  ELSE InsertByPriority(SortByPriority(SubSeq(bs, 1, Len(bs) - 1)), bs[Len(bs)])

EnabledIn(b, env) == b.enabled /\ b.environment = env

\* the absent ToolDefinition / ToolBinding (Python's None)
NoTool == [bindings |-> <<>>, allowed_agents |-> {}, defined |-> FALSE]
NoBinding == Binding(None, None, None, 0, FALSE)

get_tool(T, logical_name) ==
  IF logical_name \in DOMAIN T
  THEN [bindings |-> T[logical_name].bindings,
        allowed_agents |-> T[logical_name].allowed_agents, defined |-> TRUE]
  ELSE NoTool

\* get_binding that forgets the enabled flag
get_binding_IgnoringEnabled(T, logical_name, environment) ==
  LET tool == get_tool(T, logical_name) IN
  IF ~tool.defined THEN NoBinding
  ELSE LET requested == SelectSeq(tool.bindings, LAMBDA b : b.environment = environment)
           bindings ==
             IF requested = <<>>
             THEN SelectSeq(tool.bindings, LAMBDA b : b.environment = "default")
             ELSE requested
       IN IF bindings = <<>> THEN NoBinding ELSE SortByPriority(bindings)[1]

get_binding(T, logical_name, environment) ==
  LET tool == get_tool(T, logical_name) IN
  IF ~tool.defined THEN NoBinding
  ELSE LET requested == SelectSeq(tool.bindings, LAMBDA b : EnabledIn(b, environment))
           enabled_bindings ==
             IF requested = <<>>
             THEN SelectSeq(tool.bindings, LAMBDA b : EnabledIn(b, "default"))
             ELSE requested
       IN IF enabled_bindings = <<>> THEN NoBinding
          ELSE SortByPriority(enabled_bindings)[1]

\* a configuration file of the catalog: whether it can be opened and parsed, the
\* tool keys in the order of the document, the data of each, and the keys whose
\* data is not a mapping (tool_data.get raises on them)
ConfigFile(readable, order, tools, broken) ==
  [readable |-> readable, order |-> order, tools |-> tools, broken |-> broken]

CatalogOrder == <<"ping", "secret", "off">>

\* the file the catalog is constructed from
CatalogFile == ConfigFile(TRUE, CatalogOrder, CatalogDoc, {})

\* the ToolCatalog: its tool map and its reverse index
Catalog(T, P) == [tools |-> T, physical_to_logical |-> P]

EmptyCatalog == Catalog([t \in {} |-> NoTool], [t \in {} |-> None])

\* lines 90-95: the tool is registered and each of its bindings, enabled or not,
\* points its physical tool at this logical name; a later tool overwrites
RegisterTool(C, logical_name, tool_data) ==
  LET physical == {tool_data.bindings[k].physical_tool : k \in DOMAIN tool_data.bindings}
  IN Catalog([t \in DOMAIN C.tools \cup {logical_name} |->
                IF t = logical_name THEN tool_data ELSE C.tools[t]],
             [q \in DOMAIN C.physical_to_logical \cup physical |->
                IF q \in physical THEN logical_name ELSE C.physical_to_logical[q]])

\* the for loop of _load_config from the i-th tool on; an exception leaves what
\* the loop has registered so far and is raised again
RECURSIVE LoadFrom(_, _, _)
LoadFrom(C, file, i) ==
  IF i > Len(file.order) THEN [catalog |-> C, raised |-> FALSE]
  ELSE IF file.order[i] \in file.broken THEN [catalog |-> C, raised |-> TRUE]
  ELSE LoadFrom(RegisterTool(C, file.order[i], file.tools[file.order[i]]), file, i + 1)

\* _load_config
load_config(C, file) ==
  IF ~file.readable THEN [catalog |-> C, raised |-> TRUE]
  ELSE LoadFrom(C, file, 1)

\* get_logical_name: dict.get
get_logical_name(P, physical_tool) ==
  IF physical_tool \in DOMAIN P THEN P[physical_tool] ELSE None

\* reload: both maps are cleared, then the file is loaded
reload(C, file) == load_config(EmptyCatalog, file)

(* ------------------------------------------------------------------ *)
(* RoundRobinStrategy                                                   *)
(* ------------------------------------------------------------------ *)
\* every server name of the model, in the order Python sorts strings
SortedNames == <<"a", "a,b", "b,c", "c", "s1", "s1_s2", "s2">>

\* sorted(s.name for s in servers)
sorted_names(candidates) == SelectSeq(SortedNames, LAMBDA n : n \in Range(candidates))

\* sep.join(strs)
RECURSIVE Join(_, _)
Join(strs, sep) ==
  IF strs = <<>> THEN ""
  ELSE IF Len(strs) = 1 THEN strs[1]
  ELSE strs[1] \o sep \o Join(Tail(strs), sep)

\* the counter key of RoundRobinStrategy.select: "_".join(sorted(names))
CounterKey(candidates) == Join(sorted_names(candidates), "_")

\* a select that never advances its counter
round_robin_select_Stuck(cnt, candidates) ==
  IF candidates = <<>> THEN <<cnt, None>>
  ELSE LET key == CounterKey(candidates)
           c == IF key \in DOMAIN cnt THEN cnt[key] ELSE 0
       IN <<[k \in (DOMAIN cnt) \cup {key} |-> c], candidates[(c % Len(candidates)) + 1]>>

\* select: <<the counters afterwards, the selected name>>
round_robin_select(cnt, candidates) ==
  IF candidates = <<>> THEN <<cnt, None>>
  ELSE LET key == CounterKey(candidates)
           c == IF key \in DOMAIN cnt THEN cnt[key] ELSE 0
           index == c % Len(candidates)
       IN <<[k \in (DOMAIN cnt) \cup {key} |-> IF k = key THEN c + 1 ELSE cnt[k]],
            candidates[index + 1]>>

\* WeightedStrategy
default_weight == 100

\* weights: s.weight if s.weight > 0 else default_weight, for each server
weights_of(candidates, weight) ==
  [i \in 1..Len(candidates) |->
     IF weight[candidates[i]] > 0 THEN weight[candidates[i]] ELSE default_weight]

RECURSIVE Sum(_)
Sum(ws) == IF ws = <<>> THEN 0 ELSE Head(ws) + Sum(Tail(ws))

\* random.uniform draws a float: the model counts a draw r in steps of
\* 1 / DrawScale, so that a draw lies on a cumulative weight exactly when it is
\* a multiple of DrawScale and strictly between two integers otherwise
DrawScale == 2

\* a loop that compares the draw with the cumulative weight before adding the
\* server's own weight
RECURSIVE weighted_pick_BeforeAdding(_, _, _, _)
weighted_pick_BeforeAdding(candidates, ws, r, cumulative) ==
  IF Len(candidates) = 1 THEN candidates[1]
  ELSE IF r <= DrawScale * cumulative THEN candidates[1]
  ELSE weighted_pick_BeforeAdding(Tail(candidates), Tail(ws), r, cumulative + Head(ws))

\* the for loop of WeightedStrategy.select: the first server at which the
\* cumulative weight reaches r, the last server if none does
RECURSIVE weighted_pick(_, _, _, _)
weighted_pick(candidates, ws, r, cumulative) ==
  IF Len(candidates) = 1 THEN candidates[1]
  ELSE IF r <= DrawScale * (cumulative + Head(ws)) THEN candidates[1]
  ELSE weighted_pick(Tail(candidates), Tail(ws), r, cumulative + Head(ws))

\* WeightedStrategy.select, r the value random.uniform(0, total) drew (in steps
\* of 1 / DrawScale) and
\* i the position random.choice drew
weighted_select(candidates, weight, r, i) ==
  IF candidates = <<>> THEN None
  ELSE LET weights == weights_of(candidates, weight)
           total == Sum(weights)
       IN IF total = 0 THEN candidates[i]
          ELSE weighted_pick(candidates, weights, r, 0)

\* RandomStrategy.select, i the position random.choice drew
random_select(candidates, i) ==
  IF candidates = <<>> THEN None ELSE candidates[i]

\* ConsistentHashStrategy
VirtualNodes == 2
hash_fields == <<"target", "query", "domain">>

\* the strings the model hashes, in increasing order of int(md5(key).hexdigest(), 16)
MD5Order ==
  <<"c:2", "a:0", "b,c:0", "c:1", "a,b:2", "a:2", "k2", "b,c:1", "c:3", "c:0",
    "a:1", "a,b:3", "k1", "[('other', 'v')]", "a:3", "a,b:1", "b,c:2", "a,b:0",
    "b,c:3">>

\* _hash: the position of md5(key) among the hashes of the model's strings
hash(key) == CHOOSE h \in 1..Len(MD5Order) : MD5Order[h] = key

\* the keys of a params dict, in the order Python sorts strings
SortedFields == <<"domain", "other", "query", "target">>

\* str(sorted(params.items()))
repr_items(params) ==
  LET fields == SelectSeq(SortedFields, LAMBDA f : f \in DOMAIN params)
  IN "[" \o Join([j \in 1..Len(fields) |->
                    "('" \o fields[j] \o "', '" \o params[fields[j]] \o "')"], ", ")
         \o "]"

\* _get_hash_key, rnd the string str(random.random()) produced
get_hash_key(params, rnd) ==
  IF DOMAIN params = {} THEN rnd
  ELSE LET found == SelectSeq(hash_fields,
                              LAMBDA f : f \in DOMAIN params /\ params[f] # "")
       IN IF found # <<>> THEN params[found[1]] ELSE repr_items(params)

\* the signature _build_ring computes: ",".join(sorted(names))
signature(candidates) == Join(sorted_names(candidates), ",")

\* the strategy's cached ring, as one value
HashRing(r, n, b) == [ring |-> r, nodes |-> n, built_for |-> b]

\* _build_ring past the signature test: the ring built from the servers
new_ring(candidates) ==
  LET count == Len(candidates) * VirtualNodes
      server(j) == candidates[((j - 1) \div VirtualNodes) + 1]
      hashes == [j \in 1..count |->
                   hash(server(j) \o ":" \o ToString((j - 1) % VirtualNodes))]
      last(h) == CHOOSE j \in 1..count :
                   hashes[j] = h /\ \A k \in 1..count : hashes[k] = h => k <= j
  IN HashRing(SortSeq(hashes, LAMBDA x, y : x < y),
              [h \in Range(hashes) |-> server(last(h))],
              signature(candidates))

\* _build_ring: the ring is kept when the signature is the one it was built for
build_ring(H, candidates) ==
  IF H.built_for = signature(candidates) THEN H
  ELSE new_ring(candidates)

\* bisect_left(ring, h): the number of entries smaller than h
bisect_left(r, h) == Cardinality({j \in 1..Len(r) : r[j] < h})

\* a select that returns the name the ring holds without looking it up in servers
consistent_hash_select_FromRing(H, candidates, params, rnd) ==
  IF candidates = <<>> THEN <<H, None>>
  ELSE IF Len(candidates) = 1 THEN <<H, candidates[1]>>
  ELSE LET built == build_ring(H, candidates)
           h == hash(get_hash_key(params, rnd))
           found == bisect_left(built.ring, h)
           idx == IF found >= Len(built.ring) THEN 0 ELSE found
       IN <<built, built.nodes[built.ring[idx + 1]]>>

\* ConsistentHashStrategy.select: <<the cached ring afterwards, the selected name>>
consistent_hash_select(H, candidates, params, rnd) ==
  IF candidates = <<>> THEN <<H, None>>
  ELSE IF Len(candidates) = 1 THEN <<H, candidates[1]>>
  ELSE LET built == build_ring(H, candidates)
           h == hash(get_hash_key(params, rnd))
           found == bisect_left(built.ring, h)
           idx == IF found >= Len(built.ring) THEN 0 ELSE found
           server_name == built.nodes[built.ring[idx + 1]]
       IN <<built, IF server_name \in Range(candidates)
                   THEN server_name ELSE candidates[1]>>

(* ------------------------------------------------------------------ *)
(* RoutingStrategyFactory                                               *)
(* ------------------------------------------------------------------ *)
\* the keys of a strategy config, in the order Python sorts strings
SortedConfigKeys == <<"default_weight", "virtual_nodes">>

\* str(sorted(config.items())), the values being numbers
config_repr(cfg) ==
  LET keys == SelectSeq(SortedConfigKeys, LAMBDA f : f \in DOMAIN cfg)
  IN "[" \o Join([j \in 1..Len(keys) |->
                    "('" \o keys[j] \o "', " \o ToString(cfg[keys[j]]) \o ")"], ", ")
         \o "]"

\* the strings the factory hashes, in the order of the hash() values this
\* process gives them
HashedStrings == <<"[('virtual_nodes', 2)]", "[]", "[('default_weight', 5)]">>

\* hash(str): the position of the string's hash among those of the model
str_hash(str) == CHOOSE h \in 1..Len(HashedStrings) : HashedStrings[h] = str

\* cache_key = f"{strategy_name}:{hash(str(sorted(config.items())))}"
cache_key(strategy_name, cfg) ==
  strategy_name \o ":" \o ToString(str_hash(config_repr(cfg)))

\* a strategy instance: id tells the objects apart, cnt is the _counters of a
\* RoundRobinStrategy, H the cached ring of a ConsistentHashStrategy
Strategy(id, kind, cnt, H) == [id |-> id, kind |-> kind, counters |-> cnt, ring |-> H]

\* the instance the next constructor call returns
NewStrategy(S, kind) ==
  LET ids == {S[k].id : k \in DOMAIN S}
      max == IF ids = {} THEN 0 ELSE CHOOSE x \in ids : \A y \in ids : y <= x
  IN Strategy(max + 1, kind, [k \in {} |-> 0], HashRing(<<>>, [h \in {} |-> None], None))

\* the class a strategy name stands for: round_robin for an unknown name
KindOf(strategy_name) ==
  IF strategy_name \in {"round_robin", "weighted", "consistent_hash", "random"}
  THEN strategy_name ELSE "round_robin"

\* the key under which get keeps the instance of a name and a config
KeyOf(strategy_name, cfg) ==
  IF strategy_name = "random" THEN "random" ELSE cache_key(strategy_name, cfg)

\* a get that builds a new instance on every call
factory_get_Fresh(S, strategy_name, cfg) ==
  LET key == KeyOf(strategy_name, cfg)
  IN [k \in (DOMAIN S) \cup {key} |->
        IF k = key THEN NewStrategy(S, KindOf(strategy_name)) ELSE S[k]]

\* RoutingStrategyFactory.get: the cache afterwards; the instance returned is
\* the one under KeyOf(strategy_name, cfg)
factory_get(S, strategy_name, cfg) ==
  LET key == KeyOf(strategy_name, cfg)
  IN IF key \in DOMAIN S THEN S
     ELSE [k \in (DOMAIN S) \cup {key} |->
             IF k = key THEN NewStrategy(S, KindOf(strategy_name)) ELSE S[k]]

\* strategy.select on an instance: <<the instance afterwards, the selected name>>
strategy_select(inst, candidates, params, rnd, weight, r, i) ==
  IF inst.kind = "round_robin"
  THEN LET choice == round_robin_select(inst.counters, candidates)
       IN <<[inst EXCEPT !.counters = choice[1]], choice[2]>>
  ELSE IF inst.kind = "consistent_hash"
  THEN LET choice == consistent_hash_select(inst.ring, candidates, params, rnd)
       IN <<[inst EXCEPT !.ring = choice[1]], choice[2]>>
  ELSE IF inst.kind = "weighted"
  THEN <<inst, weighted_select(candidates, weight, r, i)>>
  ELSE <<inst, random_select(candidates, i)>>

(* ------------------------------------------------------------------ *)
(* ToolCallResult and AuditLogger                                       *)
(* ------------------------------------------------------------------ *)
max_result_length == 500

\* complete() that forgets to stamp the duration
complete_WithoutDuration(result, status, payload, error, t) ==
  [result EXCEPT !.end_time = t, !.status = status, !.result = payload, !.error = error,
                 !.completions = @ + 1]

\* ToolCallResult.complete
complete(result, status, payload, error, t) ==
  [result EXCEPT !.end_time = t, !.status = status, !.result = payload, !.error = error,
                 !.duration_ms = (t - result.start_time) * 1000,
                 !.completions = @ + 1]

\* _summarize_result; a payload is modelled by its length
summarize_result(payload) ==
  IF payload = NoResult THEN NoResult
  ELSE IF payload > max_result_length THEN max_result_length + 3 ELSE payload

AuditRecord(request, result) ==
  [request_id |-> request.request_id, caller_agent |-> request.caller_agent,
   logical_name |-> request.logical_name, physical_tool |-> result.physical_tool,
   mcp_server |-> result.mcp_server, status |-> result.status,
   result_summary |-> summarize_result(result.result), error |-> result.error,
   session_id |-> request.session_id, start_time |-> result.start_time,
   end_time |-> result.end_time, duration_ms |-> result.duration_ms]

\* the date of a time, as strftime("%Y-%m-%d") names the file of the day
seconds_per_day == 86400
date_of(t) == t \div seconds_per_day

\* a line of the audit trail: the record, and the date of the file that holds it
Line(record, file) ==
  [f \in DOMAIN record \cup {"file"} |-> IF f = "file" THEN file ELSE record[f]]

\* json.loads of a line: the record
Record(line) == [f \in DOMAIN line \ {"file"} |-> line[f]]

\* _write_log at time t: the record is appended to the file of the day unless
\* json.dumps raises on the parameters, which the except clause swallows (the
\* write to the file itself is taken to succeed)
write_log(log, record, serializable, t) ==
  IF serializable THEN Append(log, Line(record, date_of(t))) ELSE log

log_call(log, request, result, t) ==
  write_log(log, AuditRecord(request, result), request.params.serializable, t)

\* the filters of query_logs that its loop applies; a filter that is None is
\* not applied
Filter(caller_agent, logical_name, session_id) ==
  [caller_agent |-> caller_agent, logical_name |-> logical_name, session_id |-> session_id]

Matches(line, filter) ==
  /\ filter.caller_agent # None => line.caller_agent = filter.caller_agent
  /\ filter.logical_name # None => line.logical_name = filter.logical_name
  /\ filter.session_id # None => line.session_id = filter.session_id

\* lines 158-171: the lines of one file from its first line on, until the limit
RECURSIVE ReadLines(_, _, _, _)
ReadLines(lines, records, filter, limit) ==
  IF lines = <<>> \/ Len(records) >= limit THEN records
  ELSE ReadLines(Tail(lines),
                 IF Matches(Head(lines), filter)
                 THEN Append(records, Record(Head(lines))) ELSE records,
                 filter, limit)

\* lines 155-175: the files in reverse order of their names, the latest date first
RECURSIVE ReadFiles(_, _, _, _, _)
ReadFiles(log, dates, records, filter, limit) ==
  IF dates = {} THEN records
  ELSE LET d == CHOOSE x \in dates : \A y \in dates : y <= x
           IsOfDate(line) == line.file = d
           read == ReadLines(SelectSeq(log, IsOfDate), records, filter, limit)
       IN IF Len(read) >= limit THEN read
          ELSE ReadFiles(log, dates \ {d}, read, filter, limit)

\* query_logs; start_time and end_time are parameters the body never reads
query_logs(log, start_time, end_time, caller_agent, logical_name, session_id, limit) ==
  LET records == ReadFiles(log, {log[k].file : k \in DOMAIN log}, <<>>,
                           Filter(caller_agent, logical_name, session_id), limit)
  IN SubSeq(records, 1, IF limit < Len(records) THEN limit ELSE Len(records))

(* ------------------------------------------------------------------ *)
(* Inputs                                                               *)
(* ------------------------------------------------------------------ *)
Params(ok) == [target |-> "h1", serializable |-> ok]

Input(l, c, e, p) ==
  [logical_name |-> l, caller_agent |-> c, environment |-> e, params |-> p]

\* the calls that are issued: an open tool, a restricted tool by an allowed and by
\* a denied caller, a restricted tool with no
\* enabled binding, an unknown name, and parameters json.dumps cannot serialise
CallInputs ==
  {Input("ping", "guest", "default", Params(TRUE)),
   Input("secret", "admin", "default", Params(TRUE)),
   Input("secret", "guest", "default", Params(TRUE)),
   Input("off", "guest", "default", Params(TRUE)),
   Input("nope", "guest", "default", Params(TRUE)),
   Input("ping", "guest", "default", Params(FALSE))}

Announce(d, e, w, ts) == [description |-> d, environment |-> e, weight |-> w, tools |-> ts]

\* the announcement the gateway's calls are observed with
CallRegInputs == {Announce("a", "default", 100, <<"x">>)}

\* the announcements servers register with
RegInputs ==
  {Announce("a", "default", 100, <<"x">>),
   Announce("b", "prod", 1, <<"x", "y">>),
   Announce("a", "default", 100, <<>>)}
\* the announcements each server sends in the registry specification
RegistryInputs(name) ==
  IF name = "s1" THEN RegInputs ELSE {Announce("b", "prod", 1, <<"x", "y">>)}

\* the exceptions the awaited Connection Manager call raises
\* the catalogs of one tool "t": every list of up to MaxBindings bindings, the
\* i-th one bound to server "b<i>"
MaxBindings == 3
BindingChoices(i) ==
  {Binding("b" \o ToString(i), "x", env, prio, en) :
     env \in {"default", "prod"}, prio \in {1, 2}, en \in BOOLEAN}
BindingLists ==
  UNION {{bs \in [1..n -> UNION {BindingChoices(i) : i \in 1..n}] :
            \A i \in 1..n : bs[i] \in BindingChoices(i)} : n \in 0..MaxBindings}
Catalogs == {[t |-> [bindings |-> bs, allowed_agents |-> {}]] : bs \in BindingLists}
LookupNames == {"t", "nope"}
LookupEnvironments == {"default", "prod", "staging"}

\* the candidate lists and params of the select calls
MaxSelections == 3
RoundRobinLists == {<<>>, <<"s1", "s2">>, <<"s2", "s1">>, <<"s1_s2">>}
ServerWeight == [n \in {"a", "c"} |-> IF n = "a" THEN 0 ELSE 1]
WeightedLists == {<<>>, <<"c">>, <<"a", "c">>, <<"c", "a">>}
HashLists ==
  {<<>>, <<"c">>, <<"a,b", "c">>, <<"a", "b,c">>, <<"b,c", "a">>, <<"a", "c">>,
   <<"a", "b,c", "c">>}
NoParams == [f \in {} |-> ""]
HashParams ==
  {NoParams,
   [f \in {"target"} |-> "k1"],
   [f \in {"target", "query"} |-> IF f = "target" THEN "" ELSE "k1"],
   [f \in {"other"} |-> "v"]}
RandomKeys == {"k2"}
\* the draws of random.uniform(0, total): 0, total, every cumulative weight and
\* the draws next to it on both sides
WeightedDraws(candidates) ==
  LET ws == weights_of(candidates, ServerWeight)
      cumulative == {Sum(SubSeq(ws, 1, k)) : k \in 1..Len(ws)}
  IN {0} \cup {DrawScale * c : c \in cumulative}
         \cup {DrawScale * c - 1 : c \in cumulative}
         \cup {DrawScale * c + 1 : c \in cumulative \ {Sum(ws)}}

\* the checker tasks created and the stop calls that meet a task
\* the _get_routing_strategy calls: the configured strategy names (one of them
\* unknown to the factory), their configs, the candidates and the draws
MaxGets == 3
StrategyNames == {"round_robin", "weighted", "consistent_hash", "random", "bogus"}
StrategyConfigs == {[f \in {} |-> 0], [f \in {"virtual_nodes"} |-> VirtualNodes]}
FactoryLists == {<<"a", "c">>, <<"c", "a">>}
FactoryDraws == {1, DrawScale * 100 + 1}

MaxTasks == 3
MaxStops == 3

\* the files reload is given: the file of construction, the same without its last
\* tool, another catalog, a file whose second tool has no mapping as its data, a
\* file that cannot be read
OtherDoc ==
  [probe |-> [bindings |-> <<Binding("net", "y", "default", 1, TRUE)>>,
              allowed_agents |-> {}],
   ping  |-> [bindings |-> <<Binding("net", "x", "default", 1, TRUE)>>,
              allowed_agents |-> {}]]

ConfigFiles ==
  {CatalogFile,
   ConfigFile(TRUE, <<"ping", "secret">>, CatalogDoc, {}),
   ConfigFile(TRUE, <<"probe">>, OtherDoc, {}),
   ConfigFile(TRUE, <<"probe", "ping">>, OtherDoc, {"ping"}),
   ConfigFile(FALSE, <<>>, OtherDoc, {})}

\* the physical names call_tool_by_physical_name is given
PhysicalNames == {"x", "y", "z"}

Exceptions == {"ServerConnectionError", "TimeoutError"}

\* length of the payload a backend returns
PayloadLen == 2

\* the finished calls the audit logger is given: caller, tool, session and the
\* length of the payload
MaxLogged == 3
MaxDays == 1
Logged(c, l, sid, payload) ==
  [caller_agent |-> c, logical_name |-> l, session_id |-> sid, payload |-> payload]

LogInputs ==
  {Logged("guest", "ping", "u", PayloadLen),
   Logged("guest", "ping", "u", max_result_length),
   Logged("admin", "scan", "v", max_result_length + 1)}

\* the queries: no filter, each filter, a time range, with a limit of one or two
Query(start_time, end_time, c, l, sid, limit) ==
  [start_time |-> start_time, end_time |-> end_time, caller_agent |-> c,
   logical_name |-> l, session_id |-> sid, limit |-> limit, records |-> <<>>]

NoQuery == Query(NoTime, NoTime, None, None, None, 0)

Queries ==
  {Query(NoTime, NoTime, None, None, None, limit) : limit \in 1..2}
  \cup {Query(NoTime, NoTime, "guest", None, None, 2),
        Query(NoTime, NoTime, None, "scan", None, 2),
        Query(NoTime, NoTime, None, None, "u", 1),
        Query(TickSeconds, NoTime, None, None, None, 2),
        Query(NoTime, TickSeconds, "guest", None, None, 2)}

(* ------------------------------------------------------------------ *)
(* Initial state: after ToolGateway() has built the catalog, the        *)
(* registry (one statically configured server) and the audit logger     *)
(* ------------------------------------------------------------------ *)
NoRun == -1

\* _heartbeat_task is None
NoTask == 0

\* the module global _mcp_manager: the number of McpClientManager() built,
\* whether start_all_servers() has completed on the one it holds, and the calls
\* that were handed it before
Manager(created, started, early) ==
  [created |-> created, started |-> started, early |-> early]

\* _mcp_manager = None
NoManager == Manager(0, FALSE, {})

\* the health_check sections the registry is configured with
NoConfig == [k \in {} |-> 0]
Thresholds(u, h) == [k \in {"unhealthy_threshold", "healthy_threshold"} |->
                      IF k = "unhealthy_threshold" THEN u ELSE h]

\* a get_binding call and its result; before the first call, none
Resolved(logical_name, environment, binding) ==
  [logical_name |-> logical_name, environment |-> environment, binding |-> binding]

\* the state after construction: the registry with its static server and its
\* configuration, the catalog loaded from its file
InitWithCatalog(configs, files) ==
  /\ config \in configs
  /\ now = 0
  /\ servers = [n \in {"s1"} |-> StaticServer(Announce("a", "default", 100, <<>>), 0)]
  /\ tool_to_servers = [t \in {} |-> <<>>]
  /\ calls = <<>>
  /\ audit_log = <<>>
  /\ counters = [k \in {} |-> 0]
  /\ mcp_manager = None
  /\ \E file \in files :
       LET loaded == load_config(EmptyCatalog, file).catalog
       IN /\ catalog_tools = loaded.tools
          /\ physical_to_logical = loaded.physical_to_logical
  /\ resolved = Resolved(None, None, NoBinding)
  /\ query = NoQuery
  /\ heartbeat_task = NoTask
  /\ tasks = <<>>
  /\ stops = <<>>
  /\ runF = [n \in Names |-> NoRun]
  /\ runS = [n \in Names |-> NoRun]
  /\ ring = <<>>
  /\ nodes = [h \in {} |-> None]
  /\ built_for = None
  /\ selections = <<>>
  /\ strategies = [k \in {} |-> None]
  /\ gets = <<>>
  /\ mcp_global = NoManager

InitWith(configs) == InitWithCatalog(configs, {CatalogFile})

(* ------------------------------------------------------------------ *)
(* History of the health events of each server                          *)
(* ------------------------------------------------------------------ *)
\* kind[n]: "fail" (mark_unhealthy), "succ" (mark_healthy), "other" (another
\* operation acted on n), "none" (n was not touched)
RunsAfter(kind) ==
  /\ runF' = [n \in Names |->
       CASE kind[n] = "none" -> runF[n]
         [] kind[n] = "fail" -> IF runF[n] >= 0 THEN runF[n] + 1 ELSE NoRun
         [] OTHER -> IF /\ n \in DOMAIN servers'
                        /\ servers'[n].status = HEALTHY
                        /\ servers'[n].consecutive_failures = 0
                     THEN 0 ELSE NoRun]
  /\ runS' = [n \in Names |->
       CASE kind[n] = "none" -> runS[n]
         [] kind[n] = "succ" -> IF runS[n] >= 0 THEN runS[n] + 1 ELSE NoRun
         [] OTHER -> IF n \in DOMAIN servers' /\ servers'[n].status = UNHEALTHY
                     THEN 0 ELSE NoRun]

Touch(name, k) == [n \in Names |-> IF n = name /\ n \in DOMAIN servers THEN k ELSE "none"]

(* ------------------------------------------------------------------ *)
(* Registry operations                                                  *)
(* ------------------------------------------------------------------ *)
Registry == [servers |-> servers, tool_to_servers |-> tool_to_servers, config |-> config]

\* the registry after an operation, and the health history after it
Becomes(R, kind) ==
  /\ servers' = R.servers
  /\ tool_to_servers' = R.tool_to_servers
  /\ RunsAfter(kind)

Register(name, a) ==
  /\ Becomes(register(Registry, name, a, now),
             [n \in Names |-> IF n = name THEN "other" ELSE "none"])
  /\ UNCHANGED <<gateway_vars, clock_vars, router_vars>>

Heartbeat(name) ==
  /\ name \in DOMAIN servers => servers[name].consecutive_successes < MaxStreak
  /\ Becomes(heartbeat(Registry, name, now), Touch(name, "other"))
  /\ UNCHANGED <<gateway_vars, clock_vars, router_vars>>

Deregister(name) ==
  /\ Becomes(deregister(Registry, name), Touch(name, "other"))
  /\ UNCHANGED <<gateway_vars, clock_vars, router_vars>>

MarkUnhealthy(name) ==
  /\ name \in DOMAIN servers => servers[name].consecutive_failures < MaxStreak
  /\ Becomes(mark_unhealthy(Registry, name), Touch(name, "fail"))
  /\ UNCHANGED <<gateway_vars, clock_vars, router_vars>>

MarkHealthy(name) ==
  /\ name \in DOMAIN servers => servers[name].consecutive_successes < MaxStreak
  /\ Becomes(mark_healthy(Registry, name), Touch(name, "succ"))
  /\ UNCHANGED <<gateway_vars, clock_vars, router_vars>>

RecordRequest(name, success) ==
  /\ name \in DOMAIN servers => servers[name].total_requests < MaxRequests
  /\ Becomes(record_request(Registry, name, success), [n \in Names |-> "none"])
  /\ UNCHANGED <<gateway_vars, clock_vars, router_vars>>

\* one scan of _heartbeat_check_loop: the for loop has no await, so it is one step
CheckerScan ==
  /\ Becomes(heartbeat_check(Registry, now),
             [n \in Names |->
                IF n \in DOMAIN servers /\ servers'[n].status # servers[n].status
                THEN "other" ELSE "none"])
  /\ UNCHANGED <<gateway_vars, clock_vars, router_vars>>

\* the clock advances, up to limit ticks
Tick(limit) ==
  /\ now < limit * TickSeconds
  /\ now' = now + TickSeconds
  /\ UNCHANGED <<registry_vars, gateway_vars, catalog_tools, physical_to_logical, config,
               resolved, query, router_vars, checker_vars>>

(* ------------------------------------------------------------------ *)
(* ToolCatalog                                                          *)
(* ------------------------------------------------------------------ *)
GetBinding(logical_name, environment) ==
  /\ resolved' = Resolved(logical_name, environment,
                          get_binding(catalog_tools, logical_name, environment))
  /\ UNCHANGED <<registry_vars, gateway_vars, now, catalog_tools, physical_to_logical, config,
               query, router_vars, checker_vars>>

(* ------------------------------------------------------------------ *)
(* Routing strategies                                                   *)
(* ------------------------------------------------------------------ *)
\* one select call, as the history keeps it
Selection(strategy, candidates, key, selected) ==
  [strategy |-> strategy, servers |-> candidates, key |-> key, selected |-> selected]

Selected(entry) ==
  /\ Len(selections) < MaxSelections
  /\ selections' = Append(selections, entry)

RoundRobinSelect(candidates) ==
  LET choice == round_robin_select(counters, candidates)
  IN /\ Selected(Selection("round_robin", candidates, "", choice[2]))
     /\ counters' = choice[1]
     /\ UNCHANGED <<registry_vars, calls, audit_log, mcp_manager, clock_vars,
                    ring, nodes, built_for, factory_vars, manager_vars>>

WeightedSelect(candidates, r, i) ==
  /\ Selected(Selection("weighted", candidates, "",
                        weighted_select(candidates, ServerWeight, r, i))
                @@ [r |-> r])
  /\ UNCHANGED <<registry_vars, gateway_vars, clock_vars, ring, nodes, built_for,
                 factory_vars, manager_vars>>

ConsistentHashSelect(candidates, params, rnd) ==
  LET choice == consistent_hash_select(HashRing(ring, nodes, built_for),
                                       candidates, params, rnd)
  IN /\ Selected(Selection("consistent_hash", candidates,
                           get_hash_key(params, rnd), choice[2])
                   @@ [params |-> params, rnd |-> rnd])
     /\ ring' = choice[1].ring
     /\ nodes' = choice[1].nodes
     /\ built_for' = choice[1].built_for
     /\ UNCHANGED <<registry_vars, gateway_vars, clock_vars, factory_vars, manager_vars>>

RandomSelect(candidates, i) ==
  /\ Selected(Selection("random", candidates, "", random_select(candidates, i)))
  /\ UNCHANGED <<registry_vars, gateway_vars, clock_vars, ring, nodes, built_for,
                 factory_vars, manager_vars>>

\* one _get_routing_strategy call and the select made on the instance it
\* returned, as the history keeps them; cached tells whether the instance
\* already held the ring of these candidates
Got(strategy_name, cfg, inst, candidates, selected) ==
  [strategy_name |-> strategy_name, config |-> cfg, id |-> inst.id, kind |-> inst.kind,
   servers |-> candidates, cached |-> inst.ring.built_for = signature(candidates),
   selected |-> selected]

\* strategy = self._get_routing_strategy(); strategy.select(servers, params),
\* the strategy name and its config being those of routing_config
GetRoutingStrategy(strategy_name, cfg, candidates, r, i) ==
  LET cache == factory_get(strategies, strategy_name, cfg)
      key == KeyOf(strategy_name, cfg)
      choice == strategy_select(cache[key], candidates, [f \in {"target"} |-> "k1"],
                                "k2", ServerWeight, r, i)
  IN /\ Len(gets) < MaxGets
     /\ strategies' = [cache EXCEPT ![key] = choice[1]]
     /\ gets' = Append(gets, Got(strategy_name, cfg, cache[key], candidates, choice[2]))
     /\ UNCHANGED <<registry_vars, gateway_vars, clock_vars, ring, nodes, built_for,
                    selections, manager_vars>>

(* ------------------------------------------------------------------ *)
(* ToolGateway.call_tool                                                *)
(* ------------------------------------------------------------------ *)
NewRequest(id, inp) ==
  [request_id |-> id, logical_name |-> inp.logical_name, params |-> inp.params,
   caller_agent |-> inp.caller_agent, session_id |-> None,
   environment |-> inp.environment]

NewResult(id, inp, t) ==
  [request_id |-> id, logical_name |-> inp.logical_name, physical_tool |-> "",
   mcp_server |-> "", status |-> PENDING, result |-> NoResult, error |-> None,
   start_time |-> t, end_time |-> NoTime, duration_ms |-> NoTime, completions |-> 0]

\* the permission check with the membership test inverted
Denied_Inverted(tool_def, caller_agent) ==
  /\ tool_def.defined
  /\ tool_def.allowed_agents # {}
  /\ caller_agent \in tool_def.allowed_agents

\* the permission check of step 2
Denied(tool_def, caller_agent) ==
  /\ tool_def.defined
  /\ tool_def.allowed_agents # {}
  /\ caller_agent \notin tool_def.allowed_agents

\* a call: its request, its result, the routed server, where it stands, and
\* whether mcp_manager.call_tool has been invoked for it
Call(request, result, selected, pc, invoked) ==
  [request |-> request, result |-> result, selected_server |-> selected,
   pc |-> pc, invoked |-> invoked]

\* an except branch that marks the server unhealthy without recording the request
FailCall_MarkingOnly(c, error) ==
  LET result == complete(c.result, FAILED, NoResult, error, now)
      sel == c.selected_server
  IN /\ Becomes(IF sel # None THEN mark_unhealthy(Registry, sel) ELSE Registry,
                Touch(sel, "fail"))
     /\ audit_log' = log_call(audit_log, c.request, result, now)
     /\ calls' = [calls EXCEPT ![c.request.request_id] =
                    Call(c.request, result, sel, "done", c.invoked)]

\* the except branch: complete as FAILED, feed the failure back, audit
FailCall(c, error) ==
  LET result == complete(c.result, FAILED, NoResult, error, now)
      sel == c.selected_server
  IN /\ Becomes(IF sel # None
                 THEN mark_unhealthy(record_request(Registry, sel, FALSE), sel)
                 ELSE Registry,
                Touch(sel, "fail"))
     /\ audit_log' = log_call(audit_log, c.request, result, now)
     /\ calls' = [calls EXCEPT ![c.request.request_id] =
                    Call(c.request, result, sel, "done", c.invoked)]

\* lines 104-168: from the entry to an early return or to the first await
CallStart(inp) ==
  /\ Len(calls) < MaxCalls
  /\ LET id == Len(calls) + 1
         request == NewRequest(id, inp)
         result == NewResult(id, inp, now)
         binding == get_binding(catalog_tools, inp.logical_name, inp.environment)
         tool_def == get_tool(catalog_tools, inp.logical_name)
         bound == [result EXCEPT !.physical_tool = binding.physical_tool,
                                 !.mcp_server = binding.mcp_server]
         candidates == get_servers_for_tool(Registry, binding.physical_tool)
         choice == round_robin_select(counters, candidates)
         selected == choice[2]
         running == [bound EXCEPT !.mcp_server = IF selected # None THEN selected ELSE @,
                                  !.status = RUNNING]
     IN IF binding = NoBinding
        THEN LET done == complete(result, FAILED, NoResult, "unknown tool", now)
             IN /\ calls' = Append(calls, Call(request, done, None, "done", FALSE))
                /\ audit_log' = log_call(audit_log, request, done, now)
                /\ UNCHANGED <<counters, mcp_manager>>
        ELSE IF Denied(tool_def, inp.caller_agent)
        THEN LET done == complete(bound, PERMISSION_DENIED, NoResult, "permission denied", now)
             IN /\ calls' = Append(calls, Call(request, done, None, "done", FALSE))
                /\ audit_log' = log_call(audit_log, request, done, now)
                /\ UNCHANGED <<counters, mcp_manager>>
        ELSE /\ counters' = choice[1]
             /\ calls' = Append(calls,
                  IF mcp_manager = None
                  THEN Call(request, running, selected, "get_manager", FALSE)
                  ELSE Call(request, running, selected, "invoking", TRUE))
             /\ UNCHANGED <<audit_log, mcp_manager>>
  /\ UNCHANGED <<registry_vars, clock_vars, router_vars>>

\* _get_mcp_manager returns the manager: mcp_manager.call_tool is invoked
GetManager(i) ==
  /\ i \in DOMAIN calls
  /\ calls[i].pc = "get_manager"
  /\ mcp_manager' = "ready"
  /\ calls' = [calls EXCEPT ![i].pc = "invoking", ![i].invoked = TRUE]
  /\ UNCHANGED <<registry_vars, audit_log, counters, clock_vars, router_vars>>

\* get_mcp_manager finds the global empty: it builds the manager, assigns it to
\* the global and awaits start_all_servers()
ManagerBegin(i) ==
  /\ i \in DOMAIN calls
  /\ calls[i].pc = "get_manager"
  /\ mcp_manager = None
  /\ mcp_global.created = 0
  /\ mcp_global' = Manager(1, FALSE, {})
  /\ calls' = [calls EXCEPT ![i].pc = "starting"]
  /\ UNCHANGED <<registry_vars, audit_log, counters, mcp_manager, clock_vars,
                 ring, nodes, built_for, selections, factory_vars>>

\* start_all_servers() completes: get_mcp_manager returns the manager to the
\* call that built it, which keeps it and invokes mcp_manager.call_tool
ManagerStarted(i) ==
  /\ i \in DOMAIN calls
  /\ calls[i].pc = "starting"
  /\ mcp_global' = [mcp_global EXCEPT !.started = TRUE]
  /\ mcp_manager' = "ready"
  /\ calls' = [calls EXCEPT ![i].pc = "invoking", ![i].invoked = TRUE]
  /\ UNCHANGED <<registry_vars, audit_log, counters, clock_vars,
                 ring, nodes, built_for, selections, factory_vars>>

\* start_all_servers() raises: the global keeps the manager, the call that
\* built it runs its except branch
ManagerStartRaise(i) ==
  /\ i \in DOMAIN calls
  /\ calls[i].pc = "starting"
  /\ FailCall(calls[i], "ManagerStartError")
  /\ UNCHANGED <<counters, mcp_manager, clock_vars, router_vars>>

\* get_mcp_manager finds the global set: it returns the manager at once, started
\* or not, and the call keeps it and invokes mcp_manager.call_tool
ManagerGet(i) ==
  /\ i \in DOMAIN calls
  /\ calls[i].pc = "get_manager"
  /\ mcp_global.created > 0
  /\ mcp_global' = [mcp_global EXCEPT
                      !.early = IF mcp_global.started THEN @ ELSE @ \cup {i}]
  /\ mcp_manager' = "ready"
  /\ calls' = [calls EXCEPT ![i].pc = "invoking", ![i].invoked = TRUE]
  /\ UNCHANGED <<registry_vars, audit_log, counters, clock_vars,
                 ring, nodes, built_for, selections, factory_vars>>

\* _get_mcp_manager raises (start_all_servers failed): the except branch runs
GetManagerRaise(i) ==
  /\ i \in DOMAIN calls
  /\ calls[i].pc = "get_manager"
  /\ FailCall(calls[i], "ManagerStartError")
  /\ UNCHANGED <<counters, mcp_manager, clock_vars, router_vars>>

\* a return that completes the result and leaves the call awaiting the manager
CallReturn_StillInvoking(i) ==
  /\ i \in DOMAIN calls
  /\ calls[i].pc = "invoking"
  /\ LET c == calls[i]
         result == complete(c.result, SUCCESS, PayloadLen, None, now)
         sel == c.selected_server
     IN /\ Becomes(IF sel # None
                    THEN mark_healthy(record_request(Registry, sel, TRUE), sel)
                    ELSE Registry,
                   Touch(sel, "succ"))
        /\ audit_log' = log_call(audit_log, c.request, result, now)
        /\ calls' = [calls EXCEPT ![i] = Call(c.request, result, sel, "invoking", c.invoked)]
  /\ UNCHANGED <<counters, mcp_manager, clock_vars, router_vars>>

\* mcp_manager.call_tool returns: lines 171-177 and 190-192
CallReturn(i) ==
  /\ i \in DOMAIN calls
  /\ calls[i].pc = "invoking"
  /\ LET c == calls[i]
         result == complete(c.result, SUCCESS, PayloadLen, None, now)
         sel == c.selected_server
     IN /\ Becomes(IF sel # None
                    THEN mark_healthy(record_request(Registry, sel, TRUE), sel)
                    ELSE Registry,
                   Touch(sel, "succ"))
        /\ audit_log' = log_call(audit_log, c.request, result, now)
        /\ calls' = [calls EXCEPT ![i] = Call(c.request, result, sel, "done", c.invoked)]
  /\ UNCHANGED <<counters, mcp_manager, clock_vars, router_vars>>

\* mcp_manager.call_tool raises: lines 179-187 and 190-192
CallRaise(i, e) ==
  /\ i \in DOMAIN calls
  /\ calls[i].pc = "invoking"
  /\ FailCall(calls[i], e)
  /\ UNCHANGED <<counters, mcp_manager, clock_vars, router_vars>>

(* ------------------------------------------------------------------ *)
(* ToolGateway.call_tool_by_physical_name                               *)
(* ------------------------------------------------------------------ *)
\* lines 212-225: the request and the result of the direct call
DirectResult(id, inp, t) ==
  [NewResult(id, inp, t) EXCEPT !.physical_tool = inp.logical_name,
                                !.mcp_server = "unknown"]

\* lines 207-228: the reverse lookup, then call_tool under the logical name, or
\* the direct call up to its first await
CallToolByPhysicalName(physical_name, caller_agent, params) ==
  LET logical_name == get_logical_name(physical_to_logical, physical_name)
      inp == Input(physical_name, caller_agent, "default", params)
      id == Len(calls) + 1
  IN IF logical_name # None
     THEN CallStart(Input(logical_name, caller_agent, "default", params))
     ELSE /\ Len(calls) < MaxCalls
          /\ calls' = Append(calls,
               IF mcp_manager = None
               THEN Call(NewRequest(id, inp), DirectResult(id, inp, now), None,
                         "direct_get_manager", FALSE)
               ELSE Call(NewRequest(id, inp), DirectResult(id, inp, now), None,
                         "direct_invoking", TRUE))
          /\ UNCHANGED <<audit_log, counters, mcp_manager, registry_vars, clock_vars,
                         router_vars>>

\* lines 228-229: _get_mcp_manager returns and mcp_manager.call_tool is invoked with
\* the physical name
DirectGetManager(i) ==
  /\ i \in DOMAIN calls
  /\ calls[i].pc = "direct_get_manager"
  /\ mcp_manager' = "ready"
  /\ calls' = [calls EXCEPT ![i].pc = "direct_invoking", ![i].invoked = TRUE]
  /\ UNCHANGED <<registry_vars, audit_log, counters, clock_vars, router_vars>>

\* lines 229-230 and 234-235: the call returns
DirectReturn(i) ==
  /\ i \in DOMAIN calls
  /\ calls[i].pc = "direct_invoking"
  /\ LET c == calls[i]
         result == complete(c.result, SUCCESS, PayloadLen, None, now)
     IN /\ audit_log' = log_call(audit_log, c.request, result, now)
        /\ calls' = [calls EXCEPT ![i] = Call(c.request, result, None, "done", c.invoked)]
  /\ UNCHANGED <<registry_vars, counters, mcp_manager, clock_vars, router_vars>>

\* lines 231-235: _get_mcp_manager or the call raises
DirectRaise(i, e) ==
  /\ i \in DOMAIN calls
  /\ calls[i].pc \in {"direct_get_manager", "direct_invoking"}
  /\ LET c == calls[i]
         result == complete(c.result, FAILED, NoResult, e, now)
     IN /\ audit_log' = log_call(audit_log, c.request, result, now)
        /\ calls' = [calls EXCEPT ![i] = Call(c.request, result, None, "done", c.invoked)]
  /\ UNCHANGED <<registry_vars, counters, mcp_manager, clock_vars, router_vars>>

\* ToolCatalog.reload
Reload(file) ==
  LET loaded == reload(Catalog(catalog_tools, physical_to_logical), file)
  IN /\ catalog_tools' = loaded.catalog.tools
     /\ physical_to_logical' = loaded.catalog.physical_to_logical
     /\ UNCHANGED <<registry_vars, gateway_vars, now, config, resolved, query, router_vars, checker_vars>>

(* ------------------------------------------------------------------ *)
(* AuditLogger                                                          *)
(* ------------------------------------------------------------------ *)
\* log_call on a call that has just finished
LogCall(inp) ==
  /\ Len(audit_log) < MaxLogged
  /\ LET id == Len(audit_log) + 1
         call == Input(inp.logical_name, inp.caller_agent, "default", Params(TRUE))
         request == [NewRequest(id, call) EXCEPT !.session_id = inp.session_id]
         result == complete(NewResult(id, call, now), SUCCESS, inp.payload, None, now)
     IN audit_log' = log_call(audit_log, request, result, now)
  /\ UNCHANGED <<registry_vars, calls, counters, mcp_manager, clock_vars, router_vars>>

\* query_logs
QueryLogs(q) ==
  /\ query' = [q EXCEPT !.records =
                 query_logs(audit_log, q.start_time, q.end_time, q.caller_agent,
                            q.logical_name, q.session_id, q.limit)]
  /\ UNCHANGED <<registry_vars, gateway_vars, now, catalog_tools, physical_to_logical,
                 config, resolved, router_vars, checker_vars>>

\* midnight passes
NextDay ==
  /\ date_of(now) < MaxDays
  /\ now' = now + seconds_per_day
  /\ UNCHANGED <<registry_vars, gateway_vars, catalog_tools, physical_to_logical, config,
                 resolved, query, router_vars, checker_vars>>

(* ------------------------------------------------------------------ *)
(* The heartbeat checker task                                           *)
(* ------------------------------------------------------------------ *)
\* a stop_heartbeat_checker call: the task it cancelled and awaits, and whether
\* it has returned
Stop(task, pc) == [task |-> task, pc |-> pc]

\* start_heartbeat_checker: no await lies between the test and create_task
start_heartbeat_checker(held, created) ==
  IF held # NoTask THEN [heartbeat_task |-> held, tasks |-> created]
  ELSE [heartbeat_task |-> Len(created) + 1, tasks |-> Append(created, "sleeping")]

StartChecker ==
  /\ Len(tasks) < MaxTasks
  /\ LET started == start_heartbeat_checker(heartbeat_task, tasks)
     IN /\ heartbeat_task' = started.heartbeat_task
        /\ tasks' = started.tasks
  /\ UNCHANGED <<registry_vars, gateway_vars, now, catalog_tools, physical_to_logical,
                 config, resolved, query, stops, router_vars>>

\* stop_heartbeat_checker up to its await: with no task held it returns at once;
\* otherwise it cancels the task held and awaits it. A task that is done already
\* is awaited without a suspension, so the field is cleared in the same step.
StopCheckerBegin ==
  /\ heartbeat_task # NoTask
  /\ Len(stops) < MaxStops
  /\ IF tasks[heartbeat_task] = "done"
     THEN /\ stops' = Append(stops, Stop(heartbeat_task, "returned"))
          /\ heartbeat_task' = NoTask
          /\ UNCHANGED tasks
     ELSE /\ stops' = Append(stops, Stop(heartbeat_task, "awaiting"))
          /\ tasks' = [tasks EXCEPT ![heartbeat_task] = "cancelled"]
          /\ UNCHANGED heartbeat_task
  /\ UNCHANGED <<registry_vars, gateway_vars, now, catalog_tools, physical_to_logical,
                 config, resolved, query, router_vars>>

\* the task awaited has ended: the stop resumes, clears the field and returns
StopCheckerEnd(k) ==
  /\ k \in DOMAIN stops
  /\ stops[k].pc = "awaiting"
  /\ tasks[stops[k].task] = "done"
  /\ heartbeat_task' = NoTask
  /\ stops' = [stops EXCEPT ![k].pc = "returned"]
  /\ UNCHANGED <<registry_vars, gateway_vars, now, catalog_tools, physical_to_logical,
                 config, resolved, query, tasks, router_vars>>

\* _heartbeat_check_loop of task t: the sleep has elapsed and the scan runs, with
\* no await from its first server to its last
LoopScan(t) ==
  /\ t \in DOMAIN tasks
  /\ tasks[t] = "sleeping"
  /\ CheckerScan

\* _heartbeat_check_loop of task t: the cancellation is delivered at the sleep
\* (or before the first step of the task) and the task ends
LoopCancelled(t) ==
  /\ t \in DOMAIN tasks
  /\ tasks[t] = "cancelled"
  /\ tasks' = [tasks EXCEPT ![t] = "done"]
  /\ UNCHANGED <<registry_vars, gateway_vars, now, catalog_tools, physical_to_logical,
                 config, resolved, query, heartbeat_task, stops, router_vars>>

(* ------------------------------------------------------------------ *)
(* What the claims speak of, read off the state                         *)
(* ------------------------------------------------------------------ *)
PhysicalTools == {"x", "y"}

\* the audit records written for request id i
RecordsOf(i) == {k \in DOMAIN audit_log : audit_log[k].request_id = i}

\* the catalog holds an enabled binding for the call, in its environment or in default
Resolves(req) ==
  /\ req.logical_name \in DOMAIN catalog_tools
  /\ \E k \in DOMAIN catalog_tools[req.logical_name].bindings :
       LET b == catalog_tools[req.logical_name].bindings[k]
       IN b.enabled /\ b.environment \in {req.environment, "default"}

\* the tool of the call defines a non-empty allowed-caller set without the caller
CallerDenied(req) ==
  /\ req.logical_name \in DOMAIN catalog_tools
  /\ catalog_tools[req.logical_name].allowed_agents # {}
  /\ req.caller_agent \notin catalog_tools[req.logical_name].allowed_agents

\* the calls a step starts
Started == (DOMAIN calls') \ (DOMAIN calls)

Terminal == {SUCCESS, FAILED, TIMEOUT, PERMISSION_DENIED}

(* ------------------------------------------------------------------ *)
(* Claims                                                               *)
(* ------------------------------------------------------------------ *)

\* C1: every call_tool invocation that has returned has exactly one audit record
\* for its request id in the audit trail, and no request id ever has two.
C1_ExactlyOneAuditRecord ==
  \A i \in DOMAIN calls :
    /\ Cardinality(RecordsOf(i)) <= 1
    /\ calls[i].pc = "done" => Cardinality(RecordsOf(i)) = 1

\* C2: a call is either awaiting the Connection Manager with status RUNNING or has
\* returned a result with a terminal status, a duration, and an error string
\* whenever the status is not SUCCESS; no outcome leaves it anywhere else.
C2_AlwaysTerminalResult ==
  \A i \in DOMAIN calls :
    LET c == calls[i] IN
    /\ c.pc \in {"get_manager", "invoking", "done"}
    /\ c.pc # "done" => c.result.status = RUNNING
    /\ c.pc = "done" =>
         /\ c.result.status \in Terminal
         /\ c.result.duration_ms # NoTime
         /\ c.result.duration_ms >= 0
         /\ c.result.status # SUCCESS => c.result.error # None
         /\ c.result.status = SUCCESS => c.result.error = None

\* C2 witness: a call failed by a timeout of the backend and a denied call have returned
C2_Witness ==
  \E i, j \in DOMAIN calls :
    /\ calls[i].pc = "done" /\ calls[i].result.error = "TimeoutError"
    /\ calls[j].pc = "done" /\ calls[j].result.status = PERMISSION_DENIED

\* C3 as claimed: whenever the tool defines a non-empty allowed-caller set and the
\* caller is not in it, the call completes as PERMISSION_DENIED and the Connection
\* Manager is not invoked for it.
C3_DeniedWheneverNotAllowed ==
  \A i \in DOMAIN calls :
    CallerDenied(calls[i].request) =>
      /\ calls[i].pc = "done"
      /\ calls[i].result.status = PERMISSION_DENIED
      /\ ~calls[i].invoked

\* C3 amended: when a binding resolves for the call and the tool defines a non-empty
\* allowed-caller set without the caller, the call completes as PERMISSION_DENIED in
\* its first step, the Connection Manager is never invoked for it, no server is
\* selected, and that step changes no server, no index entry and no routing counter.
C3_DeniedWhenBindingResolves ==
  [][\A i \in DOMAIN calls' :
       (Resolves(calls'[i].request) /\ CallerDenied(calls'[i].request)) =>
         /\ calls'[i].pc = "done"
         /\ calls'[i].result.status = PERMISSION_DENIED
         /\ ~calls'[i].invoked
         /\ calls'[i].selected_server = None
         /\ i \in Started => /\ servers' = servers
                             /\ tool_to_servers' = tool_to_servers
                             /\ counters' = counters
                             /\ mcp_manager' = mcp_manager]_vars

\* C3 witness: a denied caller has tried twice while a HEALTHY server offers the tool
C3_Witness ==
  /\ \E i, j \in DOMAIN calls :
       /\ i # j
       /\ calls[i].result.status = PERMISSION_DENIED
       /\ calls[j].result.status = PERMISSION_DENIED
       /\ calls[i].request.caller_agent = calls[j].request.caller_agent
  /\ \E n \in DOMAIN servers :
       servers[n].status = HEALTHY /\ "x" \in DOMAIN tool_to_servers
       /\ n \in Range(tool_to_servers["x"])

\* C4: when the catalog resolves no binding (unknown name, or no enabled binding in
\* the requested or the default environment) the call completes as FAILED with the
\* unknown-tool error in its first step, selects no server, never invokes the
\* Connection Manager and leaves the registry and the routing counters unchanged.
C4_UnknownToolFails ==
  [][\A i \in DOMAIN calls' :
       ~Resolves(calls'[i].request) =>
         /\ calls'[i].pc = "done"
         /\ calls'[i].result.status = FAILED
         /\ calls'[i].result.error = "unknown tool"
         /\ ~calls'[i].invoked
         /\ calls'[i].selected_server = None
         /\ i \in Started => /\ servers' = servers
                             /\ tool_to_servers' = tool_to_servers
                             /\ counters' = counters
                             /\ mcp_manager' = mcp_manager]_vars

\* C4 witness: an unknown name and a tool without enabled binding were called
\* while a HEALTHY server was registered
C4_Witness ==
  /\ \E i, j \in DOMAIN calls :
       /\ calls[i].request.logical_name \notin DOMAIN catalog_tools
       /\ calls[j].request.logical_name \in DOMAIN catalog_tools
       /\ calls[i].result.error = "unknown tool"
       /\ calls[j].result.error = "unknown tool"
  /\ \E n \in DOMAIN servers : servers[n].status = HEALTHY

\* position of a name in a list
PositionIn(list, n) == CHOOSE k \in DOMAIN list : list[k] = n

\* the list get_servers_for_tool returns for t holds exactly the registered
\* HEALTHY servers of the index entry of t, each once, in the order of the entry
ExactlyHealthyOfIndex(S, idx, returned, t) ==
  LET entry == IF t \in DOMAIN idx THEN idx[t] ELSE <<>> IN
  /\ Range(returned) = {n \in Range(entry) : n \in DOMAIN S /\ S[n].status = HEALTHY}
  /\ Cardinality(Range(returned)) = Len(returned)
  /\ \A a, b \in DOMAIN returned :
       a < b => PositionIn(entry, returned[a]) < PositionIn(entry, returned[b])

\* C8: in every state get_servers_for_tool(t) is exactly the registered HEALTHY
\* servers of the index entry of t in index order, and a server the gateway selects
\* for a call is registered, HEALTHY and indexed for the call's physical tool when
\* it is selected.
C8_OnlyHealthyServers ==
  [][/\ \A t \in PhysicalTools :
          ExactlyHealthyOfIndex(servers', tool_to_servers',
            get_servers_for_tool([servers |-> servers',
                                  tool_to_servers |-> tool_to_servers',
                                  config |-> config'], t), t)
     /\ \A i \in Started :
          LET sel == calls'[i].selected_server
              tool == calls'[i].result.physical_tool
          IN sel # None =>
               /\ sel \in DOMAIN servers
               /\ servers[sel].status = HEALTHY
               /\ tool \in DOMAIN tool_to_servers
               /\ sel \in Range(tool_to_servers[tool])]_vars

\* C8 witness: both servers are indexed for x, the first of the entry is UNHEALTHY,
\* and a call was routed to the second
C8_Witness ==
  /\ "x" \in DOMAIN tool_to_servers
  /\ Len(tool_to_servers["x"]) = 2
  /\ \A n \in Range(tool_to_servers["x"]) : n \in DOMAIN servers
  /\ servers[tool_to_servers["x"][1]].status = UNHEALTHY
  /\ servers[tool_to_servers["x"][2]].status = HEALTHY
  /\ \E i \in DOMAIN calls :
       /\ calls[i].selected_server = tool_to_servers["x"][2]
       /\ calls[i].pc = "invoking"

\* C5: after k consecutive mark_unhealthy calls on a server that was HEALTHY with
\* consecutive_failures = 0, the server is HEALTHY while k < unhealthy_threshold
\* and UNHEALTHY once k >= unhealthy_threshold.
C5_UnhealthyAtThreshold ==
  \A n \in DOMAIN servers :
    runF[n] >= 0 =>
      /\ runF[n] < UnhealthyThreshold(config) => servers[n].status = HEALTHY
      /\ runF[n] >= UnhealthyThreshold(config) => servers[n].status = UNHEALTHY

\* C5 witness: with the default threshold, the third failure in a row has made a
\* HEALTHY server UNHEALTHY
C5_Witness ==
  \E n \in DOMAIN servers :
    /\ config = NoConfig
    /\ runF[n] = default_unhealthy_threshold
    /\ servers[n].status = UNHEALTHY

\* C6 as claimed: after k consecutive mark_healthy calls on a server that was
\* UNHEALTHY, the server is UNHEALTHY while k < healthy_threshold and HEALTHY once
\* k >= healthy_threshold; after the first of them consecutive_failures is 0.
C6_HealthyAtThreshold ==
  \A n \in DOMAIN servers :
    runS[n] >= 0 =>
      /\ runS[n] < HealthyThreshold(config) => servers[n].status = UNHEALTHY
      /\ runS[n] >= HealthyThreshold(config) => servers[n].status = HEALTHY
      /\ runS[n] >= 1 => servers[n].consecutive_failures = 0

\* C7 as claimed: a status changes only in a step in which consecutive_failures
\* crosses unhealthy_threshold (to UNHEALTHY) or consecutive_successes crosses
\* healthy_threshold (to HEALTHY).
C7_ChangesOnlyAtThreshold ==
  [][\A n \in (DOMAIN servers) \cap (DOMAIN servers') :
       servers'[n].status # servers[n].status =>
         \/ /\ servers'[n].status = UNHEALTHY
            /\ servers[n].consecutive_failures < UnhealthyThreshold(config)
            /\ servers'[n].consecutive_failures >= UnhealthyThreshold(config)
         \/ /\ servers'[n].status = HEALTHY
            /\ servers[n].consecutive_successes < HealthyThreshold(config)
            /\ servers'[n].consecutive_successes >= HealthyThreshold(config)]_vars

\* C7 amended: a status change made by mark_unhealthy or mark_healthy happens only
\* when the counter the call increments has reached its threshold: to UNHEALTHY
\* with consecutive_failures >= unhealthy_threshold, to HEALTHY with
\* consecutive_successes >= healthy_threshold.
C7_FeedbackChangesAtThreshold ==
  [][(\E name \in Names : MarkUnhealthy(name) \/ MarkHealthy(name)) =>
       \A n \in (DOMAIN servers) \cap (DOMAIN servers') :
         servers'[n].status # servers[n].status =>
           \/ /\ servers'[n].status = UNHEALTHY
              /\ servers'[n].consecutive_failures >= UnhealthyThreshold(config)
              /\ servers'[n].consecutive_failures = servers[n].consecutive_failures + 1
           \/ /\ servers'[n].status = HEALTHY
              /\ servers'[n].consecutive_successes >= HealthyThreshold(config)
              /\ servers'[n].consecutive_successes = servers[n].consecutive_successes + 1]_vars

\* C7 witness: with the default thresholds, the second success in a row has made
\* an UNHEALTHY server HEALTHY again
C7_Witness ==
  \E n \in DOMAIN servers :
    /\ config = NoConfig
    /\ runS[n] = default_healthy_threshold
    /\ servers[n].status = HEALTHY
    /\ servers[n].consecutive_successes = default_healthy_threshold

\* C9: the index changes only in a step of register or deregister, and a step in
\* which a server becomes UNHEALTHY or OFFLINE leaves the index as it was.
C9_IndexChangedOnlyByRegistration ==
  [][/\ tool_to_servers' # tool_to_servers =>
          \/ \E name \in Names : \E a \in RegistryInputs(name) : Register(name, a)
          \/ \E name \in Names : Deregister(name)
     /\ \A n \in (DOMAIN servers) \cap (DOMAIN servers') :
          (/\ servers'[n].status # servers[n].status
           /\ servers'[n].status \in {UNHEALTHY, OFFLINE}) =>
            tool_to_servers' = tool_to_servers]_vars

\* C9 witness: a server that went OFFLINE is still listed in the index
C9_Witness ==
  \E n \in DOMAIN servers, t \in DOMAIN tool_to_servers :
    /\ servers[n].status = OFFLINE
    /\ n \in Range(tool_to_servers[t])
    /\ servers[n].total_requests > 0

\* C10: register leaves the named server registered and HEALTHY with the announced
\* metadata and last_heartbeat = now; registered_at is now for a new name and is
\* kept for a known one; and the server is then returned by get_servers_for_tool
\* for every tool of the announcement.
C10_RegisterMakesHealthy ==
  [][\A name \in Names : \A a \in RegistryInputs(name) :
       Register(name, a) =>
         /\ name \in DOMAIN servers'
         /\ servers'[name].status = HEALTHY
         /\ servers'[name].last_heartbeat = now
         /\ servers'[name].description = a.description
         /\ servers'[name].environment = a.environment
         /\ servers'[name].weight = a.weight
         /\ name \notin DOMAIN servers => servers'[name].registered_at = now
         /\ name \in DOMAIN servers =>
              servers'[name].registered_at = servers[name].registered_at
         /\ \A t \in Range(a.tools) :
              name \in Range(get_servers_for_tool(
                               [servers |-> servers',
                                tool_to_servers |-> tool_to_servers',
                                config |-> config'], t))]_vars

\* C10 witness: a server that had crossed the failure threshold was registered
\* again later and is HEALTHY, with its first registered_at
C10_Witness ==
  \E n \in DOMAIN servers :
    /\ servers[n].status = HEALTHY
    /\ servers[n].consecutive_failures >= UnhealthyThreshold(config)
    /\ servers[n].registered_at < servers[n].last_heartbeat
    /\ servers[n].tools = <<"x", "y">>

\* C11: heartbeat on a registered name stamps last_heartbeat with now, makes the
\* status HEALTHY whatever it was, sets consecutive_failures to 0, adds 1 to
\* consecutive_successes, changes nothing else and returns true; on an unknown
\* name it returns false and leaves the servers and the index unchanged.
C11_HeartbeatEffect ==
  [][\A name \in Names :
       Heartbeat(name) =>
         /\ heartbeat_returns(Registry, name) = (name \in DOMAIN servers)
         /\ tool_to_servers' = tool_to_servers
         /\ name \notin DOMAIN servers => servers' = servers
         /\ name \in DOMAIN servers =>
              /\ DOMAIN servers' = DOMAIN servers
              /\ \A n \in DOMAIN servers \ {name} : servers'[n] = servers[n]
              /\ servers'[name] =
                   [servers[name] EXCEPT
                      !.last_heartbeat = now, !.status = HEALTHY,
                      !.consecutive_failures = 0,
                      !.consecutive_successes = servers[name].consecutive_successes + 1]]_vars

\* C11 witness: a server that was OFFLINE or UNHEALTHY after failures has sent a
\* heartbeat later than its registration and is HEALTHY with a success counted
C11_Witness ==
  \E n \in DOMAIN servers :
    /\ servers[n].status = HEALTHY
    /\ servers[n].last_heartbeat = now
    /\ servers[n].last_heartbeat > servers[n].registered_at
    /\ servers[n].consecutive_successes = 1
    /\ servers[n].consecutive_failures = 0
    /\ servers[n].failed_requests = 1
    /\ servers[n].tools = <<>>

\* C12: deregister on a registered name removes the instance and takes the name
\* out of every list of the index, deleting the lists left empty and keeping the
\* order of the others, so that no get_servers_for_tool returns it, and returns
\* true; on an unknown name it returns false and changes nothing.
C12_DeregisterEffect ==
  [][\A name \in Names :
       Deregister(name) =>
         /\ deregister_returns(Registry, name) = (name \in DOMAIN servers)
         /\ name \notin DOMAIN servers =>
              servers' = servers /\ tool_to_servers' = tool_to_servers
         /\ name \in DOMAIN servers =>
              /\ DOMAIN servers' = DOMAIN servers \ {name}
              /\ \A n \in DOMAIN servers' : servers'[n] = servers[n]
              /\ DOMAIN tool_to_servers' =
                   {t \in DOMAIN tool_to_servers :
                      SelectSeq(tool_to_servers[t], LAMBDA n : n # name) # <<>>}
              /\ \A t \in DOMAIN tool_to_servers' :
                   tool_to_servers'[t] =
                     SelectSeq(tool_to_servers[t], LAMBDA n : n # name)
              /\ \A t \in PhysicalTools :
                   name \notin Range(get_servers_for_tool(
                                       [servers |-> servers',
                                        tool_to_servers |-> tool_to_servers',
                                        config |-> config'], t))]_vars

\* C12 witness: the seeded server that had announced a tool is gone, and the
\* list of the tool it shared holds the other server alone
C12_Witness ==
  /\ "s1" \notin DOMAIN servers
  /\ "s2" \in DOMAIN servers
  /\ DOMAIN tool_to_servers = {"x", "y"}
  /\ tool_to_servers["x"] = <<"s2">>

\* C13: record_request on a registered name adds 1 to total_requests, adds 1 to
\* failed_requests exactly when success is false, and leaves every other field of
\* the server, every other server and the index unchanged.
C13_RecordRequestEffect ==
  [][\A name \in Names, success \in BOOLEAN :
       (RecordRequest(name, success) /\ name \in DOMAIN servers) =>
         /\ tool_to_servers' = tool_to_servers
         /\ DOMAIN servers' = DOMAIN servers
         /\ \A n \in DOMAIN servers \ {name} : servers'[n] = servers[n]
         /\ servers'[name] =
              [servers[name] EXCEPT
                 !.total_requests = servers[name].total_requests + 1,
                 !.failed_requests = servers[name].failed_requests
                                       + (IF success THEN 0 ELSE 1)]]_vars

\* C13 witness: a successful request was recorded for a server that is UNHEALTHY
\* after failures that were marked but not recorded
C13_Witness ==
  \E n \in DOMAIN servers :
    /\ servers[n].total_requests = 1
    /\ servers[n].failed_requests = 0
    /\ servers[n].status = UNHEALTHY
    /\ servers[n].consecutive_failures = default_unhealthy_threshold

\* C14: a scan of the heartbeat checker makes every instance whose last_heartbeat
\* is more than offline_threshold ago OFFLINE whatever its status, makes a HEALTHY
\* instance whose last_heartbeat is more than timeout_seconds (and no more than
\* offline_threshold) ago UNHEALTHY, leaves every other status as it was, and
\* changes no other field, no membership and no index entry.
C14_CheckerScanEffect ==
  [][CheckerScan =>
       /\ tool_to_servers' = tool_to_servers
       /\ DOMAIN servers' = DOMAIN servers
       /\ \A n \in DOMAIN servers :
            LET server == servers[n]
                known == server.last_heartbeat # NoTime
                elapsed == now - server.last_heartbeat
            IN servers'[n] =
                 [server EXCEPT !.status =
                    IF known /\ elapsed > offline_threshold THEN OFFLINE
                    ELSE IF known /\ elapsed > timeout_seconds
                            /\ server.status = HEALTHY THEN UNHEALTHY
                    ELSE server.status]]_vars

\* C14 witness: a server that never failed and whose last heartbeat is more than
\* offline_threshold ago is OFFLINE
C14_Witness ==
  \E n \in DOMAIN servers :
    /\ servers[n].status = OFFLINE
    /\ servers[n].last_heartbeat # NoTime
    /\ now - servers[n].last_heartbeat > offline_threshold
    /\ servers[n].consecutive_failures = 0
    /\ servers[n].consecutive_successes = 1

\* the select calls made on one strategy, in order
SelectionsOf(strategy) == SelectSeq(selections, LAMBDA e : e.strategy = strategy)

\* C15: when every round-robin select call under a counter key was made with the
\* same candidate list L of N servers, the k-th of these calls (k = 0, 1, ...)
\* returned L[k mod N]: the candidates in list order, repeating with period N.
C15_RoundRobinInOrder ==
  \A L \in RoundRobinLists \ {<<>>} :
    LET mine == SelectSeq(SelectionsOf("round_robin"),
                          LAMBDA e : CounterKey(e.servers) = CounterKey(L))
    IN (\A k \in 1..Len(mine) : mine[k].servers = L) =>
         \A k \in 1..Len(mine) : mine[k].selected = L[((k - 1) % Len(L)) + 1]

\* C15 witness: three selections in a row from a list of two servers have
\* returned the first, the second and the first again
C15_Witness ==
  /\ Len(selections) = 3
  /\ \A k \in 1..3 : /\ selections[k].strategy = "round_robin"
                     /\ selections[k].servers = <<"s1", "s2">>
  /\ <<selections[1].selected, selections[2].selected, selections[3].selected>>
       = <<"s1", "s2", "s1">>

\* C16: every select call of every strategy returned None exactly when its
\* candidate list was empty, and otherwise a server of the list it was given.
C16_SelectReturnsCandidate ==
  \A k \in 1..Len(selections) :
    /\ selections[k].selected = None <=> selections[k].servers = <<>>
    /\ selections[k].servers # <<>> =>
         selections[k].selected \in Range(selections[k].servers)

\* C16 witness: a consistent-hash selection from two candidates was made while
\* the cached ring held the names of two other servers, and a selection from
\* the empty list returned None
C16_Witness ==
  \E j, k \in 1..Len(selections) :
    /\ selections[j].strategy = "consistent_hash"
    /\ Len(selections[j].servers) = 2
    /\ \A h \in DOMAIN nodes : nodes[h] \notin Range(selections[j].servers)
    /\ DOMAIN nodes # {}
    /\ j < k
    /\ selections[k].servers = <<>>
    /\ selections[k].selected = None

\* C17 as claimed: two consistent-hash select calls with the same hash key and the
\* same set of candidate names returned the same server, whatever the order of
\* the lists and whatever calls were made in between.
C17_SameKeySameServer ==
  \A j, k \in 1..Len(selections) :
    (/\ selections[j].strategy = "consistent_hash"
     /\ selections[k].strategy = "consistent_hash"
     /\ selections[j].key = selections[k].key
     /\ Range(selections[j].servers) = Range(selections[k].servers)) =>
      selections[j].selected = selections[k].selected

\* C18: get_binding returns, among the tool's enabled bindings of the requested
\* environment, the one of highest priority, the earliest declared of these; when
\* there is none, the same choice among the enabled bindings of "default"; when
\* there is none either or the tool is unknown, absent. It never returns a
\* disabled binding, nor a default binding while the requested environment has
\* an enabled one.
C18_GetBindingChoice ==
  resolved.logical_name # None =>
    LET bs == IF resolved.logical_name \in DOMAIN catalog_tools
              THEN catalog_tools[resolved.logical_name].bindings ELSE <<>>
        In(env) == {i \in 1..Len(bs) : bs[i].enabled /\ bs[i].environment = env}
        pool == IF In(resolved.environment) # {} THEN In(resolved.environment)
                ELSE In("default")
    IN /\ pool = {} => resolved.binding = NoBinding
       /\ pool # {} =>
            \E i \in pool :
              /\ resolved.binding = bs[i]
              /\ \A j \in pool : bs[j].priority <= bs[i].priority
              /\ \A j \in pool : bs[j].priority = bs[i].priority => i <= j
       /\ resolved.binding # NoBinding => resolved.binding.enabled
       /\ In(resolved.environment) # {} =>
            resolved.binding.environment = resolved.environment

\* C18 witness: with a default binding of higher priority declared first and two
\* enabled "prod" bindings of equal priority, the lookup for "prod" has returned
\* the earlier of the two
C18_Witness ==
  /\ resolved.logical_name = "t"
  /\ resolved.environment = "prod"
  /\ catalog_tools["t"].bindings =
       <<Binding("b1", "x", "default", 2, TRUE), Binding("b2", "x", "prod", 1, TRUE),
         Binding("b3", "x", "prod", 1, TRUE)>>
  /\ resolved.binding = Binding("b2", "x", "prod", 1, TRUE)

\* the call i completes in this step: its invocation returned or raised
Completes(i) == calls[i].pc # "done" /\ calls'[i].pc = "done"

\* the feedback of one completed call on the server sel: one request recorded,
\* and one success or one failure marked; no other field but the status changes
FedBack(sel, ok) ==
  servers'[sel] =
    [servers[sel] EXCEPT
       !.total_requests = @ + 1,
       !.failed_requests = IF ok THEN @ ELSE @ + 1,
       !.consecutive_successes = IF ok THEN @ + 1 ELSE 0,
       !.consecutive_failures = IF ok THEN 0 ELSE @ + 1,
       !.status = servers'[sel].status]

\* C19 as claimed: the step that completes a call for which a server was selected
\* updates that server once -- total_requests + 1, failed_requests + 1 only on an
\* exception, the matching consecutive counter + 1 and the other reset -- and
\* changes no other server.
C19_FeedbackOnSelected ==
  [][\A i \in DOMAIN calls :
       (Completes(i) /\ calls[i].selected_server # None) =>
         LET sel == calls[i].selected_server
         IN /\ sel \in DOMAIN servers
            /\ DOMAIN servers' = DOMAIN servers
            /\ FedBack(sel, calls'[i].result.status = SUCCESS)
            /\ \A n \in DOMAIN servers \ {sel} : servers'[n] = servers[n]]_vars

\* C19 amended: the same, when the selected server is still registered at the
\* moment the call completes; when it was deregistered in the meantime the
\* completion changes no server at all.
C19_FeedbackOnRegisteredSelected ==
  [][\A i \in DOMAIN calls :
       (Completes(i) /\ calls[i].selected_server # None) =>
         LET sel == calls[i].selected_server
         IN /\ DOMAIN servers' = DOMAIN servers
            /\ tool_to_servers' = tool_to_servers
            /\ sel \in DOMAIN servers =>
                 FedBack(sel, calls'[i].result.status = SUCCESS)
            /\ \A n \in DOMAIN servers \ {sel} : servers'[n] = servers[n]]_vars

\* C19 witness: a call routed to a server has succeeded and a later call routed
\* to the same server has failed: two requests are recorded, one of them
\* failed, and the success streak is broken
C19_Witness ==
  \E i, j \in DOMAIN calls :
    /\ i < j
    /\ calls[i].pc = "done" /\ calls[i].result.status = SUCCESS
    /\ calls[j].pc = "done" /\ calls[j].result.status = FAILED
    /\ calls[i].selected_server # None
    /\ calls[j].selected_server = calls[i].selected_server
    /\ calls[i].selected_server \in DOMAIN servers
    /\ servers[calls[i].selected_server].total_requests = 2
    /\ servers[calls[i].selected_server].failed_requests = 1
    /\ servers[calls[i].selected_server].consecutive_successes = 0

\* no registered HEALTHY server is listed in the index for the tool
NoHealthyServerFor(tool) ==
  \A n \in DOMAIN servers :
    (tool \in DOMAIN tool_to_servers /\ n \in Range(tool_to_servers[tool])) =>
      servers[n].status # HEALTHY

\* C20: a call whose binding resolves and whose caller is allowed, made while no
\* HEALTHY server is registered for the physical tool, selects no server and goes
\* on to the Connection Manager with the binding's declared server in its result;
\* however such a call ends, its result still names the declared server, a
\* successful one has invoked the Connection Manager, and its completion
\* changes no server and no index entry.
C20_StaticFallback ==
  [][/\ \A inp \in CallInputs :
          (/\ CallStart(inp)
           /\ Resolves(NewRequest(Len(calls) + 1, inp))
           /\ ~CallerDenied(NewRequest(Len(calls) + 1, inp))
           /\ NoHealthyServerFor(
                get_binding(catalog_tools, inp.logical_name, inp.environment).physical_tool)) =>
            LET c == calls'[Len(calls) + 1]
            IN /\ c.selected_server = None
               /\ c.pc \in {"get_manager", "invoking"}
               /\ c.result.status = RUNNING
               /\ c.result.mcp_server =
                    get_binding(catalog_tools, inp.logical_name, inp.environment).mcp_server
               /\ counters' = counters
     /\ \A i \in DOMAIN calls :
          (Completes(i) /\ calls[i].selected_server = None) =>
            /\ servers' = servers
            /\ tool_to_servers' = tool_to_servers
            /\ calls'[i].result.mcp_server = calls[i].result.mcp_server
            /\ calls'[i].result.status = SUCCESS => calls'[i].invoked]_vars

\* C20 witness: while the one server of the tool is UNHEALTHY a call has gone to
\* the Connection Manager under the binding's declared server and succeeded,
\* and the server's statistics are those of the one failed call before it
C20_Witness ==
  \E i \in DOMAIN calls, n \in DOMAIN servers :
    /\ calls[i].pc = "done"
    /\ calls[i].selected_server = None
    /\ calls[i].invoked
    /\ calls[i].result.status = SUCCESS
    /\ calls[i].result.mcp_server = "net"
    /\ servers[n].status = UNHEALTHY
    /\ servers[n].total_requests = 1
    /\ "x" \in DOMAIN tool_to_servers /\ n \in Range(tool_to_servers["x"])

\* what call_tool_by_physical_name(q, ...) does in a step, as C21 states it: with q
\* in the reverse index it is call_tool under the logical name; otherwise a call
\* under the physical name goes to the Connection Manager with no server selected
ByPhysicalNameAsStated(q, ok) ==
  IF q \in DOMAIN physical_to_logical
  THEN CallStart(Input(physical_to_logical[q], "guest", "default", Params(ok)))
  ELSE /\ Len(calls') = Len(calls) + 1
       /\ LET c == calls'[Len(calls')]
          IN /\ c.request.logical_name = q
             /\ c.result.physical_tool = q
             /\ c.selected_server = None
             /\ c.pc \in {"direct_get_manager", "direct_invoking"}
       /\ UNCHANGED <<registry_vars, counters, audit_log>>

\* C21: call_tool_by_physical_name delegates to call_tool under the logical name
\* when the reverse index maps the physical name and otherwise calls the
\* Connection Manager directly under the physical name; in both cases a returned
\* call has exactly one audit record and a terminal status.
C21_ByPhysicalName ==
  /\ [][\A q \in PhysicalNames, ok \in BOOLEAN :
          CallToolByPhysicalName(q, "guest", Params(ok)) => ByPhysicalNameAsStated(q, ok)]_vars
  /\ [](\A i \in DOMAIN calls :
          calls[i].pc = "done" =>
            /\ Cardinality(RecordsOf(i)) = 1
            /\ calls[i].result.status \in Terminal)

\* the part of C21 that does not count audit records
C21_DelegationAndTerminalStatus ==
  /\ [][\A q \in PhysicalNames, ok \in BOOLEAN :
          CallToolByPhysicalName(q, "guest", Params(ok)) => ByPhysicalNameAsStated(q, ok)]_vars
  /\ [](\A i \in DOMAIN calls :
          calls[i].pc = "done" =>
            /\ Cardinality(RecordsOf(i)) <= 1
            /\ calls[i].request.params.serializable => Cardinality(RecordsOf(i)) = 1
            /\ calls[i].result.status \in Terminal)

\* the lines of the audit trail a query asks for: those that pass every filter it
\* gives, the time range included
Asked(q, line) ==
  /\ q.start_time # NoTime => line.start_time >= q.start_time
  /\ q.end_time # NoTime => line.start_time <= q.end_time
  /\ q.caller_agent # None => line.caller_agent = q.caller_agent
  /\ q.logical_name # None => line.logical_name = q.logical_name
  /\ q.session_id # None => line.session_id = q.session_id

\* the records asked for, the most recent first
MostRecentFirst(q, log) ==
  LET IsAsked(line) == Asked(q, line)
      all == SelectSeq(log, IsAsked)
  IN [k \in 1..Len(all) |-> Record(all[Len(all) + 1 - k])]

\* C22: query_logs returns at most limit records, each passing every filter given
\* (its time within [start_time, end_time], its caller, logical name and session
\* as asked), and they are the most recent such records of the trail, the most
\* recent first, also when one day holds more matches than limit.
C22_QueryLogs ==
  [][\A q \in Queries :
       QueryLogs(q) =>
         LET records == query'.records
             wanted == MostRecentFirst(q, audit_log)
         IN /\ Len(records) <= q.limit
            /\ \A k \in DOMAIN records : Asked(q, records[k])
            /\ records = SubSeq(wanted, 1, IF q.limit < Len(wanted) THEN q.limit
                                           ELSE Len(wanted))]_vars

\* what query_logs does return: at most limit records, each passing the caller,
\* logical name and session filters given, read from the file of the latest date
\* first and within a file from its first line on
C22_QueryLogsReadsFilesForward ==
  [][\A q \in Queries :
       QueryLogs(q) =>
         LET records == query'.records
         IN /\ Len(records) <= q.limit
            /\ \A k \in DOMAIN records :
                 Asked([q EXCEPT !.start_time = NoTime, !.end_time = NoTime], records[k])
            /\ \A j, k \in DOMAIN records :
                 j < k => \/ date_of(records[j].end_time) > date_of(records[k].end_time)
                          \/ /\ date_of(records[j].end_time) = date_of(records[k].end_time)
                             /\ records[j].request_id < records[k].request_id]_vars

\* C23: the result summary of an audit record is never longer than
\* max_result_length, whatever the length of the payload, and a payload no longer
\* than max_result_length is stored as it is.
C23_SummaryWithinMaximum ==
  [][\A inp \in LogInputs :
       LogCall(inp) =>
         LET line == audit_log'[Len(audit_log')]
         IN /\ line.result_summary <= max_result_length
            /\ inp.payload <= max_result_length => line.result_summary = inp.payload]_vars

\* how far a status is on its way: PENDING, then RUNNING, then a terminal value
StatusRank(status) ==
  CASE status = PENDING -> 0
    [] status = RUNNING -> 1
    [] OTHER -> 2

\* C24: in every execution of call_tool and of call_tool_by_physical_name,
\* complete() is invoked exactly once on the result: never twice, and once by the
\* time the call has returned. The status only moves forward, from PENDING,
\* possibly through RUNNING, to one terminal value, and a result that has a
\* terminal status never changes again.
C24_CompletedOnceStatusForward ==
  /\ [](\A i \in DOMAIN calls :
          LET c == calls[i] IN
          /\ c.result.completions <= 1
          /\ c.pc = "done" <=> c.result.completions = 1
          /\ c.result.completions = 1 <=> c.result.status \in Terminal
          /\ c.result.completions = 0 => c.result.status \in {PENDING, RUNNING})
  /\ [][\A i \in DOMAIN calls :
          /\ i \in DOMAIN calls'
          /\ StatusRank(calls'[i].result.status) >= StatusRank(calls[i].result.status)
          /\ calls[i].result.status \in Terminal => calls'[i].result = calls[i].result]_vars

\* C24 witness: a call delegated to call_tool has run on a selected server and
\* returned SUCCESS, and a direct call has returned FAILED
C24_Witness ==
  /\ \E i \in DOMAIN calls :
       /\ calls[i].pc = "done"
       /\ calls[i].selected_server # None
       /\ calls[i].result.status = SUCCESS
       /\ calls[i].result.completions = 1
  /\ \E j \in DOMAIN calls :
       /\ calls[j].pc = "done"
       /\ calls[j].result.mcp_server = "unknown"
       /\ calls[j].result.status = FAILED
       /\ calls[j].result.completions = 1

\* the file can be opened and every tool of it has a mapping as its data
FileLoads(file) == file.readable /\ Range(file.order) \cap file.broken = {}

\* the catalog holds the definitions of the file and nothing else
HoldsExactly(T, P, file) ==
  /\ DOMAIN T = Range(file.order)
  /\ \A t \in DOMAIN T : T[t] = file.tools[t]
  /\ DOMAIN P = {q \in PhysicalNames :
                   \E t \in DOMAIN T :
                     \E k \in DOMAIN T[t].bindings : T[t].bindings[k].physical_tool = q}
  /\ \A q \in DOMAIN P :
       /\ P[q] \in DOMAIN T
       /\ \E k \in DOMAIN T[P[q]].bindings : T[P[q]].bindings[k].physical_tool = q

\* C25: reload replaces the catalog wholesale: after a reload the tool map and
\* the reverse index hold exactly the definitions of the new file and nothing of
\* the old, and a reload whose file fails to load leaves the catalog as it was,
\* neither empty nor partly filled.
C25_ReloadWholesale ==
  [][\A file \in ConfigFiles :
       Reload(file) =>
         IF FileLoads(file)
         THEN HoldsExactly(catalog_tools', physical_to_logical', file)
         ELSE /\ catalog_tools' = catalog_tools
              /\ physical_to_logical' = physical_to_logical]_vars

\* the part of C25 about the files that load
C25_ReloadOfLoadableFile ==
  [][\A file \in ConfigFiles :
       Reload(file) /\ FileLoads(file) =>
         HoldsExactly(catalog_tools', physical_to_logical', file)]_vars

\* the finished calls that had the server selected, and those of them that failed
ServedBy(n) == {i \in DOMAIN calls : calls[i].pc = "done" /\ calls[i].selected_server = n}
FailedOn(n) == {i \in ServedBy(n) : calls[i].result.status = FAILED}

CounterAt(cnt, k) == IF k \in DOMAIN cnt THEN cnt[k] ELSE 0

\* C26: under every interleaving of calls in flight together, heartbeats and
\* checker scans no counter update is lost: a registered server's total_requests
\* is the number of finished calls it was selected for and its failed_requests
\* the number of those that failed; each selection advances the round-robin
\* counter of its candidate set by exactly one and leaves the others alone, and
\* no other step touches a counter, so no two selections read the same value.
C26_NoLostCounterUpdate ==
  /\ [](\A n \in DOMAIN servers :
          /\ servers[n].total_requests = Cardinality(ServedBy(n))
          /\ servers[n].failed_requests = Cardinality(FailedOn(n)))
  /\ [][IF \E i \in Started : calls'[i].selected_server # None
        THEN \E k \in DOMAIN counters' :
               /\ counters'[k] = CounterAt(counters, k) + 1
               /\ \A j \in DOMAIN counters' \ {k} :
                    j \in DOMAIN counters /\ counters'[j] = counters[j]
        ELSE counters' = counters]_vars

\* C26 witness: two calls were in flight on the same server together; one has
\* failed and is counted, the other is still awaiting the manager after a
\* heartbeat of that server and a scan of the checker at a later time
C26_Witness ==
  \E n \in DOMAIN servers :
    \E i, j \in DOMAIN calls :
      /\ i # j
      /\ calls[i].selected_server = n /\ calls[j].selected_server = n
      /\ calls[i].pc = "done" /\ calls[i].result.status = FAILED
      /\ calls[j].pc = "invoking"
      /\ servers[n].total_requests = 1 /\ servers[n].failed_requests = 1
      /\ servers[n].last_heartbeat > 0
      /\ now > servers[n].last_heartbeat

\* the status changes of the four-state machine, by the step that makes them
ByChecker == {<<HEALTHY, UNHEALTHY>>, <<HEALTHY, OFFLINE>>, <<UNHEALTHY, OFFLINE>>}
ByHeartbeatOrRegistration ==
  {<<UNKNOWN, HEALTHY>>, <<UNHEALTHY, HEALTHY>>, <<OFFLINE, HEALTHY>>}
ByFeedback == {<<HEALTHY, UNHEALTHY>>, <<UNHEALTHY, HEALTHY>>}

\* the steps that change a status: a heartbeat or a registration, the end of a call
HeartbeatOrRegistration ==
  \E name \in Names :
    \/ Heartbeat(name)
    \/ \E a \in CallRegInputs : Register(name, a)

Feedback ==
  \E i \in 1..MaxCalls :
    \/ GetManagerRaise(i)
    \/ CallReturn(i)
    \/ \E e \in Exceptions : CallRaise(i, e)

\* the status change of server n in the step, if it has one
StatusChange(n) == <<servers[n].status, servers'[n].status>>
Changes(n) ==
  n \in DOMAIN servers /\ n \in DOMAIN servers' /\ servers'[n].status # servers[n].status

\* C29: every status change of a server is one of the four-state machine: UNKNOWN
\* to HEALTHY, HEALTHY to UNHEALTHY and back, HEALTHY or UNHEALTHY to OFFLINE by the
\* checker, and out of OFFLINE only by a heartbeat or a registration. The
\* feedback of a call never moves its server out of OFFLINE, and no server goes
\* from UNKNOWN to UNHEALTHY or to OFFLINE.
C29_FourStateMachine ==
  [][\A n \in Names :
       Changes(n) =>
         \/ /\ CheckerScan
            /\ StatusChange(n) \in ByChecker
         \/ /\ HeartbeatOrRegistration
            /\ StatusChange(n) \in ByHeartbeatOrRegistration
         \/ /\ Feedback
            /\ StatusChange(n) \in ByFeedback]_vars

\* what the code keeps of C29: the checker, heartbeats and registrations change
\* the status as the machine says, and no server leaves UNKNOWN but to HEALTHY;
\* the feedback of a call moves its server to HEALTHY or to UNHEALTHY from any
\* other status, OFFLINE included
C29_FeedbackLeavesOffline ==
  [][\A n \in Names :
       Changes(n) =>
         \/ /\ CheckerScan
            /\ StatusChange(n) \in ByChecker
         \/ /\ HeartbeatOrRegistration
            /\ StatusChange(n) \in ByHeartbeatOrRegistration
         \/ /\ Feedback
            /\ StatusChange(n) \in ByFeedback \cup {<<OFFLINE, HEALTHY>>, <<OFFLINE, UNHEALTHY>>}]_vars

\* the checker tasks that have not ended
LiveTasks == {t \in DOMAIN tasks : tasks[t] # "done"}

\* C27: at most one heartbeat-checker task exists at any time, a start while one
\* is running starting no second one; once a stop_heartbeat_checker call has
\* returned, the task it stopped has ended and scans no more; a scan is one step
\* that no cancellation divides; and after a stop the checker can be started anew.
C27_OneCheckerTask ==
  /\ [](Cardinality(LiveTasks) <= 1)
  /\ [](\A k \in DOMAIN stops : stops[k].pc = "returned" => tasks[stops[k].task] = "done")
  /\ [][\A t \in 1..MaxTasks :
          LoopScan(t) => /\ tasks[t] = "sleeping"
                         /\ \A k \in DOMAIN stops : stops[k].task # t
                         /\ servers' = heartbeat_check(Registry, now).servers]_vars
  /\ [][StartChecker /\ heartbeat_task = NoTask =>
          heartbeat_task' \in LiveTasks' \ DOMAIN tasks]_vars

\* what holds of C27 while the stop calls do not overlap: one task at most, ended
\* when its stop has returned, and a new one on the next start
C27_OneCheckerTaskWhenStopsDoNotOverlap ==
  /\ []((\A j, k \in DOMAIN stops : j # k => stops[j].task # stops[k].task)
          => Cardinality(LiveTasks) <= 1)
  /\ [](\A k \in DOMAIN stops : stops[k].pc = "returned" => tasks[stops[k].task] = "done")
  /\ [][\A t \in 1..MaxTasks :
          LoopScan(t) => /\ tasks[t] = "sleeping"
                         /\ \A k \in DOMAIN stops : stops[k].task # t
                         /\ servers' = heartbeat_check(Registry, now).servers]_vars
  /\ [][StartChecker /\ heartbeat_task = NoTask =>
          heartbeat_task' \in LiveTasks' \ DOMAIN tasks]_vars

\* the calls still awaiting with the server selected
InFlightOn(n) == {i \in DOMAIN calls : calls[i].pc # "done" /\ calls[i].selected_server = n}

\* a step of a call of the gateway
GatewayStep ==
  \/ \E inp \in CallInputs : CallStart(inp)
  \/ \E i \in 1..MaxCalls : GetManager(i) \/ GetManagerRaise(i) \/ CallReturn(i)
  \/ \E i \in 1..MaxCalls, e \in Exceptions : CallRaise(i, e)

\* the server has been made UNHEALTHY by the failures of its calls
UnhealthyByCalls(n) ==
  /\ n \in DOMAIN servers
  /\ servers[n].status = UNHEALTHY
  /\ servers[n].consecutive_failures >= UnhealthyThreshold(config)

\* C28: through the call path of the gateway alone, an instance whose calls have
\* failed unhealthy_threshold times in a row is selected by no later call while
\* it is UNHEALTHY, and repeated successful calls restore it: whenever it is
\* UNHEALTHY by call failures and at least healthy_threshold more calls are made,
\* it becomes HEALTHY again unless one of the later calls fails.
C28_FailuresExcludeSuccessesRestore ==
  /\ [][\A i \in Started :
          calls'[i].selected_server # None =>
            servers[calls'[i].selected_server].status = HEALTHY]_vars
  /\ \A k \in 0..(MaxCalls - 1) :
       (/\ UnhealthyByCalls("s1")
        /\ Len(calls) = k
        /\ k + HealthyThreshold(config) <= MaxCalls)
       ~> (\/ "s1" \in DOMAIN servers /\ servers["s1"].status = HEALTHY
           \/ \E j \in DOMAIN calls : j > k /\ calls[j].result.status = FAILED)

\* what the call path does instead: an UNHEALTHY instance is a candidate of no
\* call, so only the calls that were in flight on it can still change it; with
\* none in flight the calls leave it UNHEALTHY
C28_UnhealthyStaysUnhealthy ==
  [][(/\ "s1" \in DOMAIN servers
      /\ servers["s1"].status = UNHEALTHY
      /\ InFlightOn("s1") = {}
      /\ GatewayStep)
     => /\ servers'["s1"].status = UNHEALTHY
        /\ InFlightOn("s1")' = {}]_vars

\* two consistent-hash select calls with the same hash key, the second list being
\* the first with the candidate x added
AddsOne(small, big, x) ==
  /\ small.strategy = "consistent_hash"
  /\ big.strategy = "consistent_hash"
  /\ small.key = big.key
  /\ x \notin Range(small.servers)
  /\ Range(big.servers) = Range(small.servers) \cup {x}

\* C30: when one candidate is added to a candidate set, a key whose server
\* changes goes to the added candidate; when one is removed, only the keys of the
\* removed candidate change. For any two select calls with the same key whose
\* candidate sets differ by one server x, the larger set's choice is the smaller
\* set's choice or x.
C30_MinimalDisruption ==
  \A j, k \in 1..Len(selections) :
    \A x \in Range(selections[k].servers) :
      AddsOne(selections[j], selections[k], x) =>
        selections[k].selected \in {selections[j].selected, x}

\* the same, for the histories in which no two candidate sets share a signature,
\* so that every ring was built for the candidates it served
C30_MinimalDisruptionOnOwnRing ==
  (\A j, k \in 1..Len(selections) :
     (/\ selections[j].strategy = "consistent_hash"
      /\ selections[k].strategy = "consistent_hash"
      /\ signature(selections[j].servers) = signature(selections[k].servers))
     => Range(selections[j].servers) = Range(selections[k].servers))
  => \A j, k \in 1..Len(selections) :
       \A x \in Range(selections[k].servers) :
         AddsOne(selections[j], selections[k], x) =>
           selections[k].selected \in {selections[j].selected, x}

\* a pair of calls of C30 in which the key moved to the added candidate, and one
\* in which it stayed
C30_OwnRingCases ==
  \E j, k, m, n \in 1..Len(selections) :
    /\ \E x \in Range(selections[k].servers) :
         /\ AddsOne(selections[j], selections[k], x)
         /\ Len(selections[j].servers) >= 2
         /\ selections[k].selected = x
    /\ \E x \in Range(selections[n].servers) :
         /\ AddsOne(selections[m], selections[n], x)
         /\ selections[n].selected = selections[m].selected
         /\ selections[n].selected # x

\* the hash key as the claim states it: the value of the first configured field
\* that is a key of params, the random value when none is
KeyAsStated(params, rnd) ==
  LET present == SelectSeq(hash_fields, LAMBDA f : f \in DOMAIN params)
  IN IF present # <<>> THEN params[present[1]] ELSE rnd

\* the owner of the first position of the ring H whose hash is >= the hash of
\* key, of the first position of all when no hash is
OwnerOnRing(H, key) ==
  LET at == {j \in 1..Len(H.ring) : H.ring[j] >= hash(key)}
      first == IF at = {} THEN 1 ELSE CHOOSE j \in at : \A k \in at : j <= k
  IN H.nodes[H.ring[first]]

\* the consistent-hash select calls in which no two candidate sets share the
\* signature of _build_ring, so that every ring served the candidates it was
\* built from
OwnRings ==
  \A j, k \in 1..Len(selections) :
    (/\ selections[j].strategy = "consistent_hash"
     /\ selections[k].strategy = "consistent_hash"
     /\ signature(selections[j].servers) = signature(selections[k].servers))
    => Range(selections[j].servers) = Range(selections[k].servers)

\* C31 as claimed: the hash key of every consistent-hash select call that
\* computes one (a call with two candidates or more) is the value
\* of the first field of (target, query, domain) present in params, the random
\* value when none of them is present; and the selected server is the owner of
\* the first position, on the ring of the call's candidates, whose hash is >=
\* the key's hash, wrapping to the first position.
C31_KeyAndOwner ==
  \A k \in 1..Len(selections) :
    (selections[k].strategy = "consistent_hash" /\ Len(selections[k].servers) >= 2) =>
      /\ selections[k].key = KeyAsStated(selections[k].params, selections[k].rnd)
      /\ selections[k].selected =
           OwnerOnRing(new_ring(selections[k].servers), selections[k].key)

\* what holds of the key and the owner: a call whose params carry a non-empty
\* configured field hashes the first such value, a call without params hashes
\* the random value, and while every ring served its own candidates the
\* selected server is the owner of the first position >= the key's hash
C31_KeyOfNonEmptyFieldOwnerOnOwnRing ==
  \A k \in 1..Len(selections) :
    (selections[k].strategy = "consistent_hash" /\ Len(selections[k].servers) >= 2) =>
      LET e == selections[k]
          filled == SelectSeq(hash_fields,
                              LAMBDA f : f \in DOMAIN e.params /\ e.params[f] # "")
      IN /\ filled # <<>> => e.key = e.params[filled[1]]
         /\ DOMAIN e.params = {} => e.key = e.rnd
         /\ OwnRings => e.selected = OwnerOnRing(new_ring(e.servers), e.key)

\* a call whose key hashes above every ring position and wrapped to the first,
\* and a call whose params carry none of the configured fields
C31_Cases ==
  \E j, k \in 1..Len(selections) :
    /\ selections[j].strategy = "consistent_hash"
    /\ Len(selections[j].servers) >= 2
    /\ OwnRings
    /\ \A h \in 1..Len(ring) : ring[h] < hash(selections[j].key)
    /\ selections[k].strategy = "consistent_hash"
    /\ Len(selections[k].servers) >= 2
    /\ DOMAIN selections[k].params = {"other"}

\* the effective weight of the i-th candidate of L: its own weight when
\* positive, the default weight otherwise
EffectiveWeight(L, i) ==
  IF ServerWeight[L[i]] > 0 THEN ServerWeight[L[i]] ELSE default_weight

RECURSIVE WeightBefore(_, _)
WeightBefore(L, i) ==
  IF i = 1 THEN 0 ELSE WeightBefore(L, i - 1) + EffectiveWeight(L, i - 1)

\* the draw r lies in the cumulative-weight interval of the i-th candidate of L
InIntervalOf(L, i, r) ==
  /\ DrawScale * WeightBefore(L, i) <= r
  /\ r <= DrawScale * (WeightBefore(L, i) + EffectiveWeight(L, i))

\* the draws of [0, total) that lie on no cumulative weight, one for every step
\* of 1 / DrawScale
InnerDraws(L) ==
  {r \in 0..(DrawScale * WeightBefore(L, Len(L) + 1) - 1) : r % DrawScale # 0}

\* C32: every WeightedStrategy.select call with a draw r in [0, total) returned
\* a candidate whose cumulative-weight interval contains r, the effective weight
\* being the server's weight when positive and the default weight otherwise; over
\* the draws of [0, total) each candidate of the call owns a share equal to its
\* effective weight, and a candidate of positive effective weight owns some draw.
C32_WeightedShares ==
  \A k \in 1..Len(selections) :
    (selections[k].strategy = "weighted" /\ selections[k].servers # <<>>) =>
      LET L == selections[k].servers
          total == WeightBefore(L, Len(L) + 1)
          owned(i) == {r \in InnerDraws(L) :
                         weighted_select(L, ServerWeight, r, 1) = L[i]}
      IN /\ selections[k].r < DrawScale * total =>
              \E i \in 1..Len(L) : /\ L[i] = selections[k].selected
                                   /\ InIntervalOf(L, i, selections[k].r)
         /\ \A i \in 1..Len(L) :
              /\ Cardinality(owned(i)) = (DrawScale - 1) * EffectiveWeight(L, i)
              /\ EffectiveWeight(L, i) > 0 => owned(i) # {}

\* C32 witness: from the candidates of weights 0 (so 100) and 1, a draw between
\* 100 and 101 returned the second candidate and a draw between 99 and 100 the
\* first
C32_Witness ==
  \E j, k \in 1..Len(selections) :
    /\ selections[j].strategy = "weighted"
    /\ selections[k].strategy = "weighted"
    /\ selections[j].servers = <<"a", "c">>
    /\ selections[k].servers = <<"a", "c">>
    /\ selections[j].r = DrawScale * 100 + 1
    /\ selections[j].selected = "c"
    /\ selections[k].r = DrawScale * 100 - 1
    /\ selections[k].selected = "a"

\* two _get_routing_strategy calls with the same strategy name and config, with
\* no call of that name and config between them
NextOfSame(j, k) ==
  /\ j < k
  /\ gets[j].strategy_name = gets[k].strategy_name
  /\ gets[j].config = gets[k].config
  /\ \A m \in (j + 1)..(k - 1) :
       ~(gets[m].strategy_name = gets[j].strategy_name /\ gets[m].config = gets[j].config)

\* C33: calls of the factory with the same strategy name and the same config
\* return the same instance, so the state of the instance persists from one
\* gateway call to the next: a round-robin instance continues its rotation where
\* the previous call left it, a consistent-hash instance still holds the ring it
\* built; an unknown name gets a round-robin instance, cached in the same way.
C33_FactoryCachesInstances ==
  \A j, k \in 1..Len(gets) :
    /\ (gets[j].strategy_name = gets[k].strategy_name /\ gets[j].config = gets[k].config)
         => gets[j].id = gets[k].id
    /\ gets[k].strategy_name \notin {"round_robin", "weighted", "consistent_hash", "random"}
         => gets[k].kind = "round_robin"
    /\ NextOfSame(j, k) =>
         /\ gets[k].kind = "round_robin" =>
              \E p \in 1..2 : /\ gets[j].selected = gets[j].servers[p]
                              /\ gets[k].selected = gets[k].servers[(p % 2) + 1]
         /\ (gets[k].kind = "consistent_hash"
             /\ signature(gets[j].servers) = signature(gets[k].servers))
              => gets[k].cached

\* C33 witness: three calls with an unknown strategy name and the same config
\* got one instance, which rotated; a call with the same name and another config
\* would get another instance
C33_Witness ==
  /\ Len(gets) = 3
  /\ \A k \in 1..3 : /\ gets[k].strategy_name = "bogus"
                     /\ gets[k].config = gets[1].config
                     /\ gets[k].servers = <<"a", "c">>
                     /\ gets[k].id = gets[1].id
  /\ <<gets[1].selected, gets[2].selected, gets[3].selected>> = <<"a", "c", "a">>

\* two instances of one strategy name, one for each config
C33_OneInstanceForEachConfig ==
  \E j, k \in 1..Len(gets) :
    /\ gets[j].strategy_name = "consistent_hash"
    /\ gets[k].strategy_name = "consistent_hash"
    /\ gets[j].config # gets[k].config
    /\ gets[j].id # gets[k].id

\* the calls for which mcp_manager.call_tool was invoked after the router had
\* selected an instance
RoutedInvocations == {i \in DOMAIN calls : calls[i].invoked /\ calls[i].selected_server # None}

\* what the gateway hands to the Connection Manager for call i: the physical
\* tool name and the params, nothing else
InvocationOf(i) == <<calls[i].result.physical_tool, calls[i].request.params>>

\* C34 as claimed: the backend invocation of every routed call is directed at
\* the call's selected instance. The Connection Manager serves an invocation on
\* a session it chooses from what it is handed, so there is a choice of sessions
\* under which every invocation made so far is served by the server its call
\* selected, the one named in the result.
C34_InvocationAtSelected ==
  \E session \in [{InvocationOf(i) : i \in RoutedInvocations} -> Names] :
    \A i \in RoutedInvocations :
      /\ session[InvocationOf(i)] = calls[i].selected_server
      /\ calls[i].result.mcp_server = calls[i].selected_server

\* what holds: the selected server is the one named in the result of every
\* routed call
C34_ResultNamesSelected ==
  \A i \in RoutedInvocations : calls[i].result.mcp_server = calls[i].selected_server

\* two routed calls of the same tool with the same params, selected to
\* different servers
C34_Cases ==
  \E i, j \in RoutedInvocations :
    /\ InvocationOf(i) = InvocationOf(j)
    /\ calls[i].selected_server # calls[j].selected_server

\* C35: in every reachable registry state every registered server has
\* 0 <= failed_requests <= total_requests, and no step in which a server stays
\* registered (a re-registration and a heartbeat among them) decreases either
\* counter.
C35_RequestCounters ==
  /\ [](\A n \in DOMAIN servers :
          /\ 0 <= servers[n].failed_requests
          /\ servers[n].failed_requests <= servers[n].total_requests)
  /\ [][\A n \in (DOMAIN servers) \cap (DOMAIN servers') :
          /\ servers'[n].total_requests >= servers[n].total_requests
          /\ servers'[n].failed_requests >= servers[n].failed_requests]_vars

\* C35 witness: a server on which a failed request was recorded has been
\* re-registered and has had a heartbeat since, and still counts the request
C35_Witness ==
  /\ "s1" \in DOMAIN servers
  /\ servers["s1"].failed_requests = 1
  /\ servers["s1"].total_requests = 1
  /\ servers["s1"].description = "b"
  /\ servers["s1"].consecutive_successes >= 1
  /\ servers["s1"].last_heartbeat > servers["s1"].registered_at

\* C36: in every reachable registry state no registered server has both
\* consecutive_failures and consecutive_successes greater than 0.
C36_OneStreakAtATime ==
  \A n \in DOMAIN servers :
    ~(servers[n].consecutive_failures > 0 /\ servers[n].consecutive_successes > 0)

\* C36 witness: a server whose heartbeat arrived after its registration has a
\* failure streak of 1 and no success streak: the failure was marked after the
\* heartbeat had counted a success
C36_Witness ==
  /\ "s1" \in DOMAIN servers
  /\ servers["s1"].consecutive_failures = 1
  /\ servers["s1"].consecutive_successes = 0
  /\ servers["s1"].last_heartbeat # NoTime
  /\ servers["s1"].last_heartbeat > servers["s1"].registered_at
  /\ servers["s1"].status = HEALTHY

\* C37 as claimed: in every reachable registry state the index agrees with the
\* instances: a registered server s is listed under tool t exactly when t is in
\* s.tools, every name in the index is a registered server, and no list holds a
\* name twice.
C37_IndexAgreesWithInstances ==
  /\ \A s \in DOMAIN servers :
       \A t \in (DOMAIN tool_to_servers) \cup Range(servers[s].tools) :
         (t \in DOMAIN tool_to_servers /\ s \in Range(tool_to_servers[t]))
           <=> t \in Range(servers[s].tools)
  /\ \A t \in DOMAIN tool_to_servers :
       /\ Range(tool_to_servers[t]) \subseteq DOMAIN servers
       /\ \A j, k \in 1..Len(tool_to_servers[t]) :
            tool_to_servers[t][j] = tool_to_servers[t][k] => j = k

\* what holds of the index: every name it lists under a tool is a registered
\* server whose tools include that tool, no list holds a name twice, and no
\* list is empty
C37_IndexWithinInstances ==
  \A t \in DOMAIN tool_to_servers :
    /\ tool_to_servers[t] # <<>>
    /\ \A s \in Range(tool_to_servers[t]) :
         s \in DOMAIN servers /\ t \in Range(servers[s].tools)
    /\ \A j, k \in 1..Len(tool_to_servers[t]) :
         tool_to_servers[t][j] = tool_to_servers[t][k] => j = k

\* a server registered with tools and registered again with an empty tool list:
\* it keeps its tools and the index has lost it
C37_Cases ==
  /\ "s1" \in DOMAIN servers
  /\ servers["s1"].tools = <<"x", "y">>
  /\ "s2" \in DOMAIN servers
  /\ tool_to_servers = [t \in {"x", "y"} |-> <<"s2">>]

\* server n is not HEALTHY, or its failure streak is below the threshold
BelowThresholdWhileHealthy(S, n) ==
  S[n].status = HEALTHY => S[n].consecutive_failures < UnhealthyThreshold(config)

\* C38 as claimed: whenever a registered server is HEALTHY its
\* consecutive_failures is below unhealthy_threshold, so that a re-registered
\* server again takes unhealthy_threshold failures in a row to become UNHEALTHY.
C38_HealthyBelowThreshold ==
  \A n \in DOMAIN servers : BelowThresholdWhileHealthy(servers, n)

\* what holds: no step other than a registration takes a server from a state in
\* which the claim holds of it to one in which it fails
C38_OnlyRegistrationBreaksIt ==
  [][\A n \in (DOMAIN servers) \cap (DOMAIN servers') :
       (/\ BelowThresholdWhileHealthy(servers, n)
        /\ ~(\E a \in RegistryInputs(n) : Register(n, a)))
       => BelowThresholdWhileHealthy(servers', n)]_vars

\* a server re-registered after it had been marked UNHEALTHY: it is HEALTHY
\* with the failure streak that made it UNHEALTHY
C38_Cases ==
  /\ "s1" \in DOMAIN servers
  /\ servers["s1"].status = HEALTHY
  /\ servers["s1"].consecutive_failures >= UnhealthyThreshold(config)
  /\ UnhealthyThreshold(config) >= 2

\* C39 as claimed: however the call_tool invocations interleave, one manager at
\* most is built, and no call is handed the manager, and none invokes call_tool
\* on it, before its start_all_servers() has completed.
C39_OneStartedManager ==
  /\ mcp_global.created <= 1
  /\ \A i \in DOMAIN calls : calls[i].invoked => i \notin mcp_global.early

\* what holds: one manager at most is built, and the call that built it invokes
\* call_tool only after start_all_servers() has completed
C39_OneManagerBuilt ==
  /\ mcp_global.created <= 1
  /\ \A i \in DOMAIN calls :
       (calls[i].invoked /\ i \notin mcp_global.early) => mcp_global.started

\* two calls met before the manager existed: the first is awaiting
\* start_all_servers(), the second has been handed the manager and has invoked
\* call_tool on it
C39_Cases ==
  \E i, j \in DOMAIN calls :
    /\ calls[i].pc = "starting"
    /\ calls[j].pc = "invoking"
    /\ calls[j].invoked
    /\ ~mcp_global.started

\* the server selected for call i is no longer registered
SelectedGone(i) == calls[i].selected_server \notin DOMAIN servers

\* the name selected for call i belongs to an instance registered after the call
\* began: the selected server was deregistered and the name registered again
SelectedReRegistered(i) ==
  /\ calls[i].selected_server \in DOMAIN servers
  /\ servers[calls[i].selected_server].registered_at > calls[i].result.start_time

\* C40: the step that completes a call whose selected server was deregistered
\* while the invocation was in flight leaves the registry as it was: it creates
\* no server, adds no index entry and changes no server. When the name was
\* registered again in the meantime, the step feeds the outcome back to the new
\* instance once -- one request recorded, one success or failure marked -- and
\* changes neither another server nor the index.
C40_FeedbackAfterDeregistration ==
  [][\A i \in DOMAIN calls :
       (Completes(i) /\ calls[i].selected_server # None) =>
         /\ SelectedGone(i) =>
              /\ servers' = servers
              /\ tool_to_servers' = tool_to_servers
         /\ SelectedReRegistered(i) =>
              /\ DOMAIN servers' = DOMAIN servers
              /\ tool_to_servers' = tool_to_servers
              /\ FedBack(calls[i].selected_server, calls'[i].result.status = SUCCESS)
              /\ \A n \in DOMAIN servers \ {calls[i].selected_server} :
                   servers'[n] = servers[n]]_vars

\* C40 witness: a call has completed whose selected server is not registered,
\* and another whose selected name belongs to an instance registered after the
\* call began, which counts one request
C40_Witness ==
  \E i, j \in DOMAIN calls :
    /\ calls[i].pc = "done" /\ calls[i].invoked
    /\ calls[i].selected_server = "s2"
    /\ "s2" \notin DOMAIN servers
    /\ calls[j].pc = "done" /\ calls[j].invoked
    /\ calls[j].selected_server = "s1"
    /\ "s1" \in DOMAIN servers
    /\ servers["s1"].registered_at > calls[j].result.start_time
    /\ servers["s1"].total_requests = 1

(* ------------------------------------------------------------------ *)
(* Specifications                                                       *)
(* ------------------------------------------------------------------ *)
\* the configurations the gateway's calls are observed with
CallConfigs == {NoConfig, Thresholds(1, 1)}

\* the gateway's calls, while servers register and deregister
Next ==
  \/ \E inp \in CallInputs : CallStart(inp)
  \/ \E i \in 1..MaxCalls : GetManager(i)
  \/ \E i \in 1..MaxCalls : GetManagerRaise(i)
  \/ \E i \in 1..MaxCalls : CallReturn(i)
  \/ \E i \in 1..MaxCalls, e \in Exceptions : CallRaise(i, e)
  \/ \E name \in Names, a \in CallRegInputs : Register(name, a)
  \/ \E name \in Names : Deregister(name)

Init == InitWith(CallConfigs)

Spec == Init /\ [][Next]_vars

\* the configurations the registry's API is observed with
RegistryConfigs == {NoConfig, Thresholds(1, 1)}

\* the registry's programmatic API: s1 receives every operation, s2 is a peer
\* that registers and deregisters
NextRegistry ==
  \/ \E name \in Names : \E a \in RegistryInputs(name) : Register(name, a)
  \/ \E name \in Names : Deregister(name)
  \/ \E name \in {"s1"} : Heartbeat(name)
  \/ \E name \in {"s1"} : MarkUnhealthy(name)
  \/ \E name \in {"s1"} : MarkHealthy(name)
  \/ \E name \in {"s1"}, success \in BOOLEAN : RecordRequest(name, success)
  \/ CheckerScan
  \/ Tick(MaxTicks)

InitRegistry == InitWith(RegistryConfigs)

SpecRegistry == InitRegistry /\ [][NextRegistry]_vars

\* the routing strategies, each called with candidate lists of its own
NextRouter ==
  \/ \E candidates \in RoundRobinLists : RoundRobinSelect(candidates)
  \/ \E candidates \in WeightedLists :
       \E r \in WeightedDraws(candidates),
          i \in 1..(IF candidates = <<>> THEN 1 ELSE Len(candidates)) :
         WeightedSelect(candidates, r, i)
  \/ \E candidates \in HashLists, params \in HashParams, rnd \in RandomKeys :
       ConsistentHashSelect(candidates, params, rnd)
  \/ \E candidates \in WeightedLists :
       \E i \in 1..(IF candidates = <<>> THEN 1 ELSE Len(candidates)) :
         RandomSelect(candidates, i)

InitRouter == InitWith({NoConfig})

SpecRouter == InitRouter /\ [][NextRouter]_vars

\* get_binding, called on every catalog of one tool
NextCatalog ==
  \E logical_name \in LookupNames, environment \in LookupEnvironments :
    GetBinding(logical_name, environment)

InitCatalog == InitWithCatalog({NoConfig}, {ConfigFile(TRUE, <<"t">>, c, {}) : c \in Catalogs})

SpecCatalog == InitCatalog /\ [][NextCatalog]_vars

\* the gateway called by physical names, with one registering server and
\* reloads of the catalog
NextByName ==
  \/ Register("s1", Announce("a", "default", 100, <<"x", "y">>))
  \/ \E file \in ConfigFiles : Reload(file)
  \/ \E q \in PhysicalNames, ok \in BOOLEAN : CallToolByPhysicalName(q, "guest", Params(ok))
  \/ \E i \in 1..MaxCalls : GetManager(i)
  \/ \E i \in 1..MaxCalls : GetManagerRaise(i)
  \/ \E i \in 1..MaxCalls : CallReturn(i)
  \/ \E i \in 1..MaxCalls, e \in Exceptions : CallRaise(i, e)
  \/ \E i \in 1..MaxCalls : DirectGetManager(i)
  \/ \E i \in 1..MaxCalls : DirectReturn(i)
  \/ \E i \in 1..MaxCalls, e \in Exceptions : DirectRaise(i, e)

SpecByName == InitWith({NoConfig}) /\ [][NextByName]_vars

\* the audit logger: finished calls are logged as time passes, and queried
NextAudit ==
  \/ \E inp \in LogInputs : LogCall(inp)
  \/ \E q \in Queries : QueryLogs(q)
  \/ Tick(1)
  \/ NextDay

SpecAudit == InitWith({NoConfig}) /\ [][NextAudit]_vars

\* calls in flight together while servers register and send heartbeats, time
\* passes and the checker scans
ConcurrentInputs == {Input("ping", "guest", "default", Params(TRUE))}

NextConcurrent ==
  \/ \E inp \in ConcurrentInputs : CallStart(inp)
  \/ \E i \in 1..MaxCalls : GetManager(i)
  \/ \E i \in 1..MaxCalls : GetManagerRaise(i)
  \/ \E i \in 1..MaxCalls : CallReturn(i)
  \/ \E i \in 1..MaxCalls : CallRaise(i, "TimeoutError")
  \/ \E name \in {"s1"}, a \in CallRegInputs : Register(name, a)
  \/ \E name \in {"s1"} : Heartbeat(name)
  \/ CheckerScan
  \/ Tick(MaxTicks)

SpecConcurrent == InitWith(CallConfigs) /\ [][NextConcurrent]_vars

\* the heartbeat checker started and stopped, by callers that may overlap, while
\* a server registers, sends heartbeats and time passes
NextChecker ==
  \/ StartChecker
  \/ StopCheckerBegin
  \/ \E k \in 1..MaxStops : StopCheckerEnd(k)
  \/ \E t \in 1..MaxTasks : LoopScan(t)
  \/ \E t \in 1..MaxTasks : LoopCancelled(t)
  \/ \E a \in CallRegInputs : Register("s1", a)
  \/ Tick(MaxTicks)

SpecChecker == InitWith({NoConfig}) /\ [][NextChecker]_vars

\* the gateway's call path alone: after the server has registered, callers keep
\* calling the tool, the event loop resumes every call that awaits, and the
\* backend answers; calls may fail as well. No heartbeat is sent.
NextCallPath ==
  \/ \E inp \in ConcurrentInputs : CallStart(inp)
  \/ \E i \in 1..MaxCalls : GetManager(i)
  \/ \E i \in 1..MaxCalls : CallReturn(i)
  \/ \E i \in 1..MaxCalls, e \in Exceptions : CallRaise(i, e)
  \/ \E a \in RegInputs : Register("s1", a)

SpecCallPath ==
  /\ InitWith({Thresholds(1, 1), Thresholds(2, 1)})
  /\ [][NextCallPath]_vars
  /\ WF_vars(\E inp \in ConcurrentInputs : CallStart(inp))
  /\ WF_vars(\E i \in 1..MaxCalls : GetManager(i))
  /\ WF_vars(\E i \in 1..MaxCalls : CallReturn(i))

\* WeightedStrategy.select and RandomStrategy.select, called with every draw
NextWeighted ==
  \/ \E candidates \in WeightedLists :
       \E r \in WeightedDraws(candidates),
          i \in 1..(IF candidates = <<>> THEN 1 ELSE Len(candidates)) :
         WeightedSelect(candidates, r, i)
  \/ \E candidates \in WeightedLists :
       \E i \in 1..(IF candidates = <<>> THEN 1 ELSE Len(candidates)) :
         RandomSelect(candidates, i)

SpecWeighted == InitRouter /\ [][NextWeighted]_vars

\* the factory called again and again with the names and configs of the routing
\* configuration, and a select on every instance it returns
NextFactory ==
  \E strategy_name \in StrategyNames, cfg \in StrategyConfigs,
     candidates \in FactoryLists, r \in FactoryDraws, i \in 1..2 :
    GetRoutingStrategy(strategy_name, cfg, candidates, r, i)

SpecFactory == InitRouter /\ [][NextFactory]_vars

\* concurrent call_tool invocations that meet before the Connection Manager
\* exists: the steps of get_mcp_manager interleave at its await
NextManager ==
  \/ \E inp \in CallInputs : CallStart(inp)
  \/ \E i \in 1..MaxCalls : ManagerBegin(i)
  \/ \E i \in 1..MaxCalls : ManagerStarted(i)
  \/ \E i \in 1..MaxCalls : ManagerStartRaise(i)
  \/ \E i \in 1..MaxCalls : ManagerGet(i)
  \/ \E i \in 1..MaxCalls : CallReturn(i)
  \/ \E i \in 1..MaxCalls, e \in Exceptions : CallRaise(i, e)
  \/ \E name \in {"s1"}, a \in CallRegInputs : Register(name, a)

SpecManager == InitWith({NoConfig}) /\ [][NextManager]_vars

\* calls whose selected server deregisters, and registers again, while their
\* invocation is in flight and time passes
NextInFlight ==
  \/ \E inp \in ConcurrentInputs : CallStart(inp)
  \/ \E i \in 1..MaxCalls : GetManager(i)
  \/ \E i \in 1..MaxCalls : CallReturn(i)
  \/ \E i \in 1..MaxCalls : CallRaise(i, "TimeoutError")
  \/ \E name \in Names, a \in CallRegInputs : Register(name, a)
  \/ \E name \in Names : Deregister(name)
  \/ Tick(1)

SpecInFlight == InitWith({NoConfig}) /\ [][NextInFlight]_vars

====
